---- MODULE Spec2Model ----
(***************************************************************************)
(* Model of the adaptive preference learning engine of smarthome-mock-ai   *)
(* (src/src/smarthome_mock_ai/learning.py) together with the interaction   *)
(* store it reads (interaction_logger.py), the agent that calls it         *)
(* (agent.py) and the device simulator the agent drives (simulator.py,     *)
(* device_persistence.py).                                                 *)
(*                                                                         *)
(* Python values are records [t, n, s]: t is the Python type, n the number *)
(* in tenths (24 and 24.0 both have n = 240), s the characters of a str.   *)
(* Texts are sequences of characters; a non-ASCII character is written by   *)
(* its pinyin or its name ("du" is U+5EA6, "dang" is U+6863).              *)
(***************************************************************************)
EXTENDS Integers, Sequences, FiniteSets, TLC

\* store: the rows of interaction_logs; dbOk: the database can be read;
\* now: the hour of the clock; preferences, confidence: the tables of the
\* engine; file: the snapshot file; result: what the last call returned;
\* peer: a second engine on the same store; home: the simulator with its
\* state file; second: the second of the clock; history: what was done so
\* far (the calls handed to the simulator per logged row, the ids
\* registered, the state file found at start-up), kept to state the claims
VARIABLES store, dbOk, now, preferences, confidence, file, result,
          peer, home, second, history

vars == <<store, dbOk, now, preferences, confidence, file, result,
          peer, home, second, history>>

(***************************************************************************)
(* Bounds of the model.                                                    *)
(***************************************************************************)
\* most rows the interaction store holds
MaxStore == 3

\* the last second the wall clock reaches
MaxSecond == 2

(***************************************************************************)
(* Python values.                                                          *)
(***************************************************************************)
IntV(i) == [t |-> "int", n |-> 10 * i, s |-> <<>>]

FloatV(tenths) == [t |-> "float", n |-> tenths, s |-> <<>>]

StrV(chars) == [t |-> "str", n |-> 0, s |-> chars]

IsNum(v) == v.t \in {"int", "float"}

\* Python ==, which is also the equality dict keys are looked up by:
\* 24 == 24.0, and a str never equals a number.
PyEq(a, b) ==
    IF IsNum(a) /\ IsNum(b) THEN a.n = b.n
    ELSE IF a.t = "str" /\ b.t = "str" THEN a.s = b.s
    ELSE FALSE

DigitChars == <<"0", "1", "2", "3", "4", "5", "6", "7", "8", "9">>

DigitVal(c) == (CHOOSE i \in 1..10 : DigitChars[i] = c) - 1

RECURSIVE NatStr(_)
\* str(n) for a natural number
NatStr(n) ==
    IF n < 10 THEN <<DigitChars[n + 1]>>
    ELSE NatStr(n \div 10) \o <<DigitChars[(n % 10) + 1]>>

\* str(v), the text an f-string and json.dump (for a dict key) produce:
\* 24 -> "24", 24.0 -> "24.0", a str unchanged
PyStr(v) ==
    IF v.t = "int" THEN NatStr(v.n \div 10)
    ELSE IF v.t = "float" THEN NatStr(v.n \div 10) \o <<".">> \o <<DigitChars[(v.n % 10) + 1]>>
    ELSE v.s

RECURSIVE DigitsVal(_)
\* int(text) for a text of digits
DigitsVal(chars) ==
    IF chars = <<>> THEN 0
    ELSE 10 * DigitsVal(SubSeq(chars, 1, Len(chars) - 1)) + DigitVal(chars[Len(chars)])

(***************************************************************************)
(* Context classifier.                                                     *)
(***************************************************************************)
TIME_PERIODS ==
    << [name |-> "early_morning", start |-> 5, end |-> 8],
       [name |-> "morning", start |-> 8, end |-> 12],
       [name |-> "afternoon", start |-> 12, end |-> 17],
       [name |-> "evening", start |-> 17, end |-> 21],
       [name |-> "night", start |-> 21, end |-> 24],
       [name |-> "late_night", start |-> 0, end |-> 5] >>

\* a classifier whose ranges include their end hour
GetTimePeriodInclusive(hour, clock) ==
    LET h == IF hour = -1 THEN clock ELSE hour
        hits == {i \in 1..Len(TIME_PERIODS) :
                    TIME_PERIODS[i].start <= h /\ h <= TIME_PERIODS[i].end}
    IN IF hits = {} THEN "night"
       ELSE TIME_PERIODS[CHOOSE i \in hits : \A j \in hits : i <= j].name

\* hour is an hour, or -1 for None ("use the current hour")
GetTimePeriod(hour, clock) ==
    LET h == IF hour = -1 THEN clock ELSE hour
        hits == {i \in 1..Len(TIME_PERIODS) :
                    TIME_PERIODS[i].start <= h /\ h < TIME_PERIODS[i].end}
    IN IF hits = {} THEN "night"
       ELSE TIME_PERIODS[CHOOSE i \in hits : \A j \in hits : i <= j].name

\* f"{time_period}{weekend_suffix}"
BucketName(period, weekend) ==
    CASE period = "early_morning" -> IF weekend THEN "early_morning_weekend" ELSE "early_morning_weekday"
      [] period = "morning" -> IF weekend THEN "morning_weekend" ELSE "morning_weekday"
      [] period = "afternoon" -> IF weekend THEN "afternoon_weekend" ELSE "afternoon_weekday"
      [] period = "evening" -> IF weekend THEN "evening_weekend" ELSE "evening_weekday"
      [] period = "late_night" -> IF weekend THEN "late_night_weekend" ELSE "late_night_weekday"
      [] OTHER -> IF weekend THEN "night_weekend" ELSE "night_weekday"

\* A context dict is [kind |-> "dict", hour, dow]: hour = -1 when the key
\* time_of_day is absent, dow = -1 when day_of_week is absent.
\* a classifier that reads the clock where it should read the context
GetContextKeyOfClock(context, clock) ==
    BucketName(GetTimePeriod(-1, clock), FALSE)

GetContextKey(context, clock) ==
    LET time_period == GetTimePeriod(context.hour, clock)
        day_of_week == IF context.dow = -1 THEN 0 ELSE context.dow
    IN BucketName(time_period, day_of_week >= 5)

(***************************************************************************)
(* Learnable parameters and the preference tables.                         *)
(*                                                                         *)
(* A table is a function tool -> (bucket -> entries); entries is the       *)
(* innermost dict in insertion order, a sequence of [k |-> key, n |->      *)
(* number].  The empty function <<>> is the empty dict.                    *)
(***************************************************************************)
LearnableTools == {"set_temperature", "set_light_brightness", "set_fan_speed"}

LEARNABLE_PARAMS(tool) ==
    CASE tool = "set_temperature" -> "temp"
      [] tool = "set_light_brightness" -> "level"
      [] tool = "set_fan_speed" -> "speed"

\* dict.get(tool, {}).get(bucket, {})
Entries(table, tool, bucket) ==
    IF tool \in DOMAIN table
    THEN IF bucket \in DOMAIN table[tool] THEN table[tool][bucket] ELSE <<>>
    ELSE <<>>

Put(f, key, val) == [x \in (DOMAIN f) \cup {key} |-> IF x = key THEN val ELSE f[x]]

\* an insertion that never finds the key already there
AddToAppend(entries, value, amount) == Append(entries, [k |-> value, n |-> amount])

\* an update with the sign wrong: entries[value] -= amount
AddToDecrement(entries, value, amount) ==
    LET hit == {i \in 1..Len(entries) : PyEq(entries[i].k, value)}
    IN IF hit = {} THEN Append(entries, [k |-> value, n |-> 0 - amount])
       ELSE [i \in 1..Len(entries) |->
                IF i \in hit THEN [entries[i] EXCEPT !.n = @ - amount] ELSE entries[i]]

\* entries[value] += amount on a defaultdict: a key equal to value (Python ==)
\* keeps its place and its first-inserted form, a new key goes last
AddTo(entries, value, amount) ==
    LET hit == {i \in 1..Len(entries) : PyEq(entries[i].k, value)}
    IN IF hit = {} THEN Append(entries, [k |-> value, n |-> amount])
       ELSE [i \in 1..Len(entries) |->
                IF i \in hit THEN [entries[i] EXCEPT !.n = @ + amount] ELSE entries[i]]

\* table[tool][bucket][value] += amount, creating the missing levels
Incr(table, tool, bucket, value, amount) ==
    LET inner == IF tool \in DOMAIN table THEN table[tool] ELSE <<>>
    IN Put(table, tool, Put(inner, bucket, AddTo(Entries(table, tool, bucket), value, amount)))

\* dict.clear()
ClearTable(table) == <<>>

(***************************************************************************)
(* Correction extractor: the three re.search patterns.                     *)
(***************************************************************************)
\* [\u5ea6 \u00b0 C]: the characters du (U+5EA6), the degree sign, C
TempUnits == {"du", "deg", "C"}

\* [%\uff05]: the percent sign and the fullwidth percent sign
PercentUnits == {"%", "fwpercent"}

\* \u6863: the character dang
SpeedUnits == {"dang"}

\* \s
Spaces == {" "}

\* \d
Digits == {DigitChars[i] : i \in 1..10}

\* the characters \d+\.?\d* is made of
NumChars == Digits \cup {"."}

RECURSIVE RunEnd(_, _, _)
\* last index of the longest run of characters of class that starts at i
\* (i - 1 when text[i] is not of the class)
RunEnd(text, i, class) ==
    IF i > Len(text) THEN i - 1
    ELSE IF text[i] \notin class THEN i - 1
    ELSE RunEnd(text, i + 1, class)

\* \d+\.?\d* : digits, at most one dot, not first
IsDecimal(chars) ==
    /\ Len(chars) >= 1
    /\ chars[1] \in Digits
    /\ \A j \in 1..Len(chars) : chars[j] \in NumChars
    /\ Cardinality({j \in 1..Len(chars) : chars[j] = "."}) <= 1

\* whether  <number>\s*[units]  matches starting at i, where the number is a
\* decimal (\d+\.?\d*) or a plain integer (\d+).  The unit is no digit and no
\* dot, so the number is the whole run of number characters from i.
MatchesAt(text, i, units, decimal) ==
    LET e == RunEnd(text, i, IF decimal THEN NumChars ELSE Digits)
        u == RunEnd(text, e + 1, Spaces) + 1
    IN /\ e >= i
       /\ IF decimal THEN IsDecimal(SubSeq(text, i, e)) ELSE TRUE
       /\ u <= Len(text)
       /\ text[u] \in units

\* re.search: group(1) of the leftmost match, <<>> for no match
SearchGroup(text, units, decimal) ==
    LET starts == {i \in 1..Len(text) : MatchesAt(text, i, units, decimal)}
    IN IF starts = {} THEN <<>>
       ELSE LET i == CHOOSE a \in starts : \A b \in starts : a <= b
            IN SubSeq(text, i, RunEnd(text, i, IF decimal THEN NumChars ELSE Digits))

\* float(group) in tenths; the texts of the model carry at most one
\* fractional digit
FloatOf(chars) ==
    LET dots == {j \in 1..Len(chars) : chars[j] = "."}
    IN IF dots = {} THEN FloatV(10 * DigitsVal(chars))
       ELSE LET d == CHOOSE j \in dots : TRUE
                frac == SubSeq(chars, d + 1, Len(chars))
            IN FloatV(10 * DigitsVal(SubSeq(chars, 1, d - 1))
                      + (IF frac = <<>> THEN 0 ELSE DigitVal(frac[1])))

\* int(group)
IntOf(chars) == IntV(DigitsVal(chars))

(***************************************************************************)
(* Training.  acc is the engine while train() runs: the two tables, the    *)
(* stats, and whether an exception no handler catches has been raised.     *)
(* (CHOOSE after \in {e(acc) : acc \in {engine}} is e(engine), with engine  *)
(* evaluated once.)                                                        *)
(***************************************************************************)
\* the body shared by the three correction branches and the reinforcement
\* branch: compute the bucket (context.get raises when the context is not
\* a dict), bump both tables and the stats
Learn(engine, tool, context, value, weight, clock) ==
    CHOOSE after \in
        { IF acc.raised THEN acc
          ELSE IF context.kind # "dict" THEN [acc EXCEPT !.raised = TRUE]
          ELSE LET context_key == GetContextKey(context, clock)
               IN [acc EXCEPT !.p = Incr(@, tool, context_key, value, weight),
                              !.c = Incr(@, tool, context_key, value, 1),
                              !.learned = @ + 1,
                              !.tools = @ \cup {tool}] : acc \in {engine} } : TRUE

LearnFromCorrection(acc, correction, context, clock) ==
    LET temp_match == SearchGroup(correction, TempUnits, TRUE)
        a1 == IF temp_match # <<>>
              THEN Learn(acc, "set_temperature", context, FloatOf(temp_match), 2, clock)
              ELSE acc
        brightness_match == SearchGroup(correction, PercentUnits, FALSE)
        a2 == IF brightness_match # <<>>
              THEN Learn(a1, "set_light_brightness", context, IntOf(brightness_match), 2, clock)
              ELSE a1
        speed_match == SearchGroup(correction, SpeedUnits, FALSE)
    IN IF speed_match # <<>>
       THEN Learn(a2, "set_fan_speed", context, IntOf(speed_match), 2, clock)
       ELSE a2

\* a loop that stops after the first action
ReinforceFirst(acc, actions, i, context, clock) ==
    IF i > Len(actions) THEN acc
    ELSE IF /\ actions[i].tool \in LearnableTools
            /\ LEARNABLE_PARAMS(actions[i].tool) \in DOMAIN actions[i].arguments
    THEN Learn(acc, actions[i].tool, context,
               actions[i].arguments[LEARNABLE_PARAMS(actions[i].tool)], 1, clock)
    ELSE acc

RECURSIVE ReinforceFrom(_, _, _, _, _)
\* the for loop over agent_action["actions"], from index i on
ReinforceFrom(acc, actions, i, context, clock) ==
    IF i > Len(actions) THEN acc
    ELSE LET action == actions[i]
             step == IF /\ action.tool \in LearnableTools
                        /\ LEARNABLE_PARAMS(action.tool) \in DOMAIN action.arguments
                     THEN Learn(acc, action.tool, context,
                                action.arguments[LEARNABLE_PARAMS(action.tool)], 1, clock)
                     ELSE acc
         IN ReinforceFrom(step, actions, i + 1, context, clock)

\* agent_action parsed to a number makes  "actions" not in agent_action
\* raise TypeError; a list or a dict without the key returns at once
ReinforceAction(acc, agent_action, context, clock) ==
    IF agent_action.kind = "number" THEN [acc EXCEPT !.raised = TRUE]
    ELSE IF agent_action.kind # "dict" \/ ~agent_action.hasActions THEN acc
    ELSE ReinforceFrom(acc, agent_action.actions, 1, context, clock)

\* json.loads of a stored column: only unparseable text raises JSONDecodeError
JsonFails(doc) == doc.kind = "garbage"

\* a dispatch that reinforces whatever is not a correction
LearnFromInteractionElse(engine, interaction, clock) ==
    IF engine.raised THEN engine
    ELSE IF JsonFails(interaction.agent_action) \/ JsonFails(interaction.context) THEN engine
    ELSE IF interaction.user_feedback = -1 /\ interaction.corrected_command # <<>>
    THEN LearnFromCorrection(engine, interaction.corrected_command, interaction.context, clock)
    ELSE ReinforceAction(engine, interaction.agent_action, interaction.context, clock)

LearnFromInteraction(engine, interaction, clock) ==
    CHOOSE after \in
        { IF acc.raised THEN acc
          ELSE IF JsonFails(interaction.agent_action) \/ JsonFails(interaction.context) THEN acc
          ELSE IF interaction.user_feedback = -1 /\ interaction.corrected_command # <<>>
          THEN LearnFromCorrection(acc, interaction.corrected_command, interaction.context, clock)
          ELSE IF interaction.user_feedback = 1
          THEN ReinforceAction(acc, interaction.agent_action, interaction.context, clock)
          ELSE acc : acc \in {engine} } : TRUE

\* WHERE user_feedback IS NOT NULL
HasFeedback(row) == row.user_feedback # 0

RECURSIVE SelectAll(_, _)
\* a SELECT without the WHERE clause
SelectAll(rows, i) ==
    IF i = 0 THEN <<>> ELSE <<rows[i]>> \o SelectAll(rows, i - 1)

RECURSIVE SelectFeedback(_, _)
\* the rows with feedback, ORDER BY timestamp DESC: rows[i] down to rows[1]
SelectFeedback(rows, i) ==
    IF i = 0 THEN <<>>
    ELSE (IF HasFeedback(rows[i]) THEN <<rows[i]>> ELSE <<>>) \o SelectFeedback(rows, i - 1)

RECURSIVE LearnAll(_, _, _, _)
LearnAll(acc, corrections, i, clock) ==
    IF i > Len(corrections) THEN acc
    ELSE LearnAll(LearnFromInteraction(acc, corrections[i], clock), corrections, i + 1, clock)

\* list(a_set): every element once, in an order the caller cannot choose
ListOf(set) ==
    { l \in [1..Cardinality(set) -> set] : \A i, j \in DOMAIN l : i # j => l[i] # l[j] }

\* train() with the store readable: the engine after the call
TrainRun(prefs, conf, rows, clock) ==
    LearnAll([p |-> ClearTable(prefs), c |-> ClearTable(conf), learned |-> 0,
              tools |-> {}, raised |-> FALSE],
             SelectFeedback(rows, Len(rows)), 1, clock)

(***************************************************************************)
(* Prediction and adjustment.                                              *)
(***************************************************************************)
min_confidence == 2

None == [kind |-> "none"]

\* a loop that lets a later value with the same count win (conf >=)
BestIndexLast(confs) ==
    LET top == {i \in 1..Len(confs) :
                   confs[i].n > 0 /\ \A j \in 1..Len(confs) : confs[j].n <= confs[i].n}
    IN IF top = {} THEN 0 ELSE CHOOSE i \in top : \A j \in top : j <= i

\* the loop  for value, conf in confs.items(): if conf > best_confidence
\* as the index of the winning entry (0 when no count exceeds 0)
BestIndex(confs) ==
    LET top == {i \in 1..Len(confs) :
                   confs[i].n > 0 /\ \A j \in 1..Len(confs) : confs[j].n <= confs[i].n}
    IN IF top = {} THEN 0 ELSE CHOOSE i \in top : \A j \in top : i <= j

\* a gate that lets a single observation override
ShouldOverrideUngated(best_confidence, best_value, current_value) ==
    best_confidence >= 1 /\ ~PyEq(best_value, current_value)

\* best_confidence >= self.min_confidence and best_value != current_value
ShouldOverride(best_confidence, best_value, current_value) ==
    best_confidence >= min_confidence /\ ~PyEq(best_value, current_value)

\* a predict that falls back on another bucket of the tool when the bucket
\* of the context has no entry
PredictAnyBucket(prefs_table, conf_table, tool_name, arguments, context, clock) ==
    IF tool_name \notin LearnableTools THEN None
    ELSE IF LEARNABLE_PARAMS(tool_name) \notin DOMAIN arguments THEN None
    ELSE LET asked == GetContextKey(context, clock)
             context_key == IF /\ Entries(conf_table, tool_name, asked) = <<>>
                               /\ tool_name \in DOMAIN conf_table
                               /\ DOMAIN conf_table[tool_name] # {}
                            THEN CHOOSE b \in DOMAIN conf_table[tool_name] : TRUE
                            ELSE asked
             prefs == Entries(prefs_table, tool_name, context_key)
             confs == Entries(conf_table, tool_name, context_key)
             best == BestIndex(confs)
         IN IF prefs = <<>> \/ confs = <<>> THEN None
            ELSE IF best = 0 THEN None
            ELSE IF ShouldOverride(confs[best].n, confs[best].k,
                                   arguments[LEARNABLE_PARAMS(tool_name)])
            THEN [kind |-> "prediction",
                  parameter |-> LEARNABLE_PARAMS(tool_name),
                  original_value |-> arguments[LEARNABLE_PARAMS(tool_name)],
                  suggested_value |-> confs[best].k,
                  confidence |-> confs[best].n,
                  context |-> context_key]
            ELSE None

\* a predict that only consults the confidence table
PredictByConfidence(prefs_table, conf_table, tool_name, arguments, context, clock) ==
    IF tool_name \notin LearnableTools THEN None
    ELSE IF LEARNABLE_PARAMS(tool_name) \notin DOMAIN arguments THEN None
    ELSE LET confs == Entries(conf_table, tool_name, GetContextKey(context, clock))
             best == BestIndex(confs)
         IN IF best = 0 THEN None
            ELSE IF ShouldOverride(confs[best].n, confs[best].k,
                                   arguments[LEARNABLE_PARAMS(tool_name)])
            THEN [kind |-> "prediction",
                  parameter |-> LEARNABLE_PARAMS(tool_name),
                  original_value |-> arguments[LEARNABLE_PARAMS(tool_name)],
                  suggested_value |-> confs[best].k,
                  confidence |-> confs[best].n,
                  context |-> GetContextKey(context, clock)]
            ELSE None

Predict(prefs_table, conf_table, tool_name, arguments, context, clock) ==
    IF tool_name \notin LearnableTools THEN None
    ELSE IF LEARNABLE_PARAMS(tool_name) \notin DOMAIN arguments THEN None
    ELSE LET param_name == LEARNABLE_PARAMS(tool_name)
             context_key == GetContextKey(context, clock)
             current_value == arguments[param_name]
             prefs == Entries(prefs_table, tool_name, context_key)
             confs == Entries(conf_table, tool_name, context_key)
             best == BestIndex(confs)
         IN IF prefs = <<>> \/ confs = <<>> THEN None
            ELSE IF best = 0 THEN None
            ELSE IF ShouldOverride(confs[best].n, confs[best].k, current_value)
            THEN [kind |-> "prediction",
                  parameter |-> param_name,
                  original_value |-> current_value,
                  suggested_value |-> confs[best].k,
                  confidence |-> confs[best].n,
                  context |-> context_key]
            ELSE None

tool_display_names(tool_name) ==
    CASE tool_name = "set_temperature" -> "wendu"
      [] tool_name = "set_light_brightness" -> "liangdu"
      [] tool_name = "set_fan_speed" -> "fengsu"

\* the f-string of the explanation, the fixed parts as one token each
Explanation(tool_name, prediction) ==
    <<"genju nin de xiguan (", prediction.context, "), wo yi jiang",
      tool_display_names(tool_name), "tiaozheng wei ">>
    \o PyStr(prediction.suggested_value)
    \o <<" (zhixindu: ">> \o NatStr(prediction.confidence) \o <<")">>

\* an adjust that returns the overridden parameter without the other
\* arguments
AdjustArgumentsOnlyParam(prefs_table, conf_table, tool_name, arguments, context, clock) ==
    LET prediction == Predict(prefs_table, conf_table, tool_name, arguments, context, clock)
    IN IF prediction = None
       THEN [arguments |-> arguments, explanation |-> <<>>]
       ELSE [arguments |-> Put(<<>>, prediction.parameter, prediction.suggested_value),
             explanation |-> Explanation(tool_name, prediction)]

\* [arguments, explanation]; explanation <<>> is None
AdjustArguments(prefs_table, conf_table, tool_name, arguments, context, clock) ==
    LET prediction == Predict(prefs_table, conf_table, tool_name, arguments, context, clock)
    IN IF prediction = None
       THEN [arguments |-> arguments, explanation |-> <<>>]
       ELSE [arguments |-> Put(arguments, prediction.parameter, prediction.suggested_value),
             explanation |-> Explanation(tool_name, prediction)]

(***************************************************************************)
(* Snapshot file.  json.dump writes every dict key as a string; json.load  *)
(* gives the keys back as str.                                             *)
(***************************************************************************)
JsonKey(v) == StrV(PyStr(v))

\* a table as json.dump followed by json.load returns it
JsonTable(table) ==
    [tool \in DOMAIN table |->
        [bucket \in DOMAIN table[tool] |->
            [i \in 1..Len(table[tool][bucket]) |->
                [k |-> JsonKey(table[tool][bucket][i].k), n |-> table[tool][bucket][i].n]]]]

\* A file is [exists, kind, keys, bad, preferences, confidence]: kind is
\* "object" for a JSON object, "array" for JSON that is no object, "garbage"
\* for text json.load rejects, "truncated" for the beginning of a document;
\* keys are the table keys whose value is an object, bad the table keys
\* whose value is a number
Document(kind, keys, bad, prefs_doc, conf_doc) ==
    [exists |-> TRUE, kind |-> kind, keys |-> keys, bad |-> bad,
     preferences |-> prefs_doc, confidence |-> conf_doc]

NoFile ==
    [exists |-> FALSE, kind |-> "object", keys |-> {}, bad |-> {},
     preferences |-> <<>>, confidence |-> <<>>]

\* the file save_preferences writes, as json.load reads it back
SavedFile(prefs_table, conf_table) ==
    Document("object", {"preferences", "confidence"}, {},
             JsonTable(prefs_table), JsonTable(conf_table))

\* what open(filepath, "w") and an unfinished json.dump leave
TruncatedFile == Document("truncated", {}, {}, <<>>, <<>>)

\* a loaded table that keeps what memory held for the buckets the document
\* does not name
LoadedPreferencesMerged(document) ==
    LET doc == IF "preferences" \in document.keys THEN document.preferences ELSE <<>>
    IN [tool \in DOMAIN preferences \cup DOMAIN doc |->
           IF tool \in DOMAIN doc THEN doc[tool] ELSE preferences[tool]]

\* data.get("preferences", {}) and data.get("confidence", {}) of the document
LoadedPreferences(document) ==
    IF "preferences" \in document.keys THEN document.preferences ELSE <<>>

LoadedConfidence(document) ==
    IF "confidence" \in document.keys THEN document.confidence ELSE <<>>

\* open() raises FileNotFoundError, json.load raises JSONDecodeError: the
\* two exceptions load_preferences catches
LoadCaught(document) == ~document.exists \/ document.kind \in {"garbage", "truncated"}

\* data.get on a document that is no object (AttributeError), or
\* defaultdict(factory, number) (TypeError), while building preferences
LoadRaisesFirst(document) == document.kind = "array" \/ "preferences" \in document.bad

\* defaultdict(factory, number) while building confidence
LoadRaisesSecond(document) == "confidence" \in document.bad

(***************************************************************************)
(* The columns of a row: contexts and agent actions.                       *)
(***************************************************************************)
Ctx(h, d) == [kind |-> "dict", hour |-> h, dow |-> d]

\* context = {} (log_interaction called without a context)
NoCtx == Ctx(-1, -1)

ToolCall(tool, arguments) == [tool |-> tool, arguments |-> arguments]

Actions(calls) == [kind |-> "dict", hasActions |-> TRUE, actions |-> calls]

\* a column that is no JSON ("garbage"), or JSON for a number or a list
NotADict(kind) == [kind |-> kind, hasActions |-> FALSE, actions |-> <<>>, hour |-> -1, dow |-> -1]

(***************************************************************************)
(* The simulator: the registry of devices and the file of their states.    *)
(* The registry is a dict, kept as the sequence of its devices in          *)
(* insertion order; a device is [device_id, device_type, target_temp].     *)
(***************************************************************************)
\* Thermostat(device_id, name, room) after some set_temperature calls
Device(device_id, device_type, target_temp) ==
    [device_id |-> device_id, device_type |-> device_type, target_temp |-> target_temp]

\* _target_temp = 22.0 of a new Thermostat
DefaultTemp == FloatV(220)

NoStateFile == [exists |-> FALSE, states |-> <<>>]

\* device_id in self.devices
IsRegistered(devices, device_id) ==
    \E i \in 1..Len(devices) : devices[i].device_id = device_id

\* list(self.devices.keys())
ListAllDevices(devices) == [i \in 1..Len(devices) |-> devices[i].device_id]

\* DeviceStateManager.save_states: the file is rewritten with the states of
\* the devices that are registered now
StatesOf(devices) ==
    [device_id \in {devices[i].device_id : i \in 1..Len(devices)} |->
        LET device == devices[CHOOSE i \in 1..Len(devices) : devices[i].device_id = device_id]
        IN [device_type |-> device.device_type, target_temp |-> device.target_temp]]

\* HomeSimulator._save_after_action
SaveAfterAction(sim) ==
    IF sim.persist_state
    THEN [sim EXCEPT !.state_file = [exists |-> TRUE, states |-> StatesOf(sim.devices)]]
    ELSE sim

\* Thermostat.set_temperature accepts 16 <= temp <= 30; a str raises
\* TypeError in the comparison
TempAccepted(temp) == IsNum(temp) /\ 160 <= temp.n /\ temp.n <= 300

\* DeviceStateManager.apply_states_to_devices: the devices registered now
\* take the saved state of their id (a failing setter is caught, per device)
ApplyStatesToDevices(devices, states) ==
    [i \in 1..Len(devices) |->
        IF /\ devices[i].device_id \in DOMAIN states
           /\ devices[i].device_type = "thermostat"
           /\ TempAccepted(states[devices[i].device_id].target_temp)
        THEN [devices[i] EXCEPT !.target_temp = states[devices[i].device_id].target_temp]
        ELSE devices[i]]

\* HomeSimulator._load_states
LoadStates(sim) ==
    IF ~sim.persist_state \/ ~sim.state_file.exists \/ DOMAIN sim.state_file.states = {}
    THEN sim
    ELSE [sim EXCEPT !.devices = ApplyStatesToDevices(@, sim.state_file.states)]

\* HomeSimulator.__init__: an empty registry, then _load_states()
NewSimulator(persist_state, state_file) ==
    LoadStates([devices |-> <<>>, persist_state |-> persist_state, state_file |-> state_file])

\* a register_device that replaces the device of an id already present
RegisterOverwriting(sim, device) ==
    [sim |-> SaveAfterAction(
                [sim EXCEPT !.devices =
                    IF IsRegistered(@, device.device_id)
                    THEN [i \in 1..Len(@) |-> IF @[i].device_id = device.device_id THEN device ELSE @[i]]
                    ELSE Append(@, device)]),
     raised |-> FALSE]

\* HomeSimulator.register_device: ValueError when the id is present
Register(sim, device) ==
    IF IsRegistered(sim.devices, device.device_id)
    THEN [sim |-> sim, raised |-> TRUE]
    ELSE [sim |-> SaveAfterAction([sim EXCEPT !.devices = Append(@, device)]), raised |-> FALSE]

\* HomeSimulator.unregister_device: False when the id is unknown
Unregister(sim, device_id) ==
    IF ~IsRegistered(sim.devices, device_id)
    THEN [sim |-> sim, value |-> FALSE]
    ELSE [sim |-> SaveAfterAction(
                    [sim EXCEPT !.devices = SelectSeq(@, LAMBDA d : d.device_id # device_id)]),
          value |-> TRUE]

\* HomeSimulator.set_temperature: KeyError for an unknown id, an error text
\* for a device that is no thermostat, ValueError or TypeError from the
\* device; the state is saved after a change
SetTemperature(sim, device_id, temp) ==
    IF ~IsRegistered(sim.devices, device_id) THEN [sim |-> sim, raised |-> TRUE]
    ELSE LET i == CHOOSE x \in 1..Len(sim.devices) : sim.devices[x].device_id = device_id
         IN IF sim.devices[i].device_type # "thermostat" THEN [sim |-> sim, raised |-> FALSE]
            ELSE IF ~TempAccepted(temp) THEN [sim |-> sim, raised |-> TRUE]
            ELSE [sim |-> SaveAfterAction([sim EXCEPT !.devices[i].target_temp = temp]),
                  raised |-> FALSE]

(***************************************************************************)
(* The agent: one call of process() on the response of the language model. *)
(***************************************************************************)
\* hash(user_input) of the running process
HashOf(user_input) ==
    CASE user_input = "warm" -> 481234
      [] user_input = "hot" -> 20077
      [] user_input = "hello" -> 31234
      [] OTHER -> 9

\* strftime('%Y%m%d%H%M%S') of the clock, then hash(user_input) % 10000
ActionId(clock_second, user_input) ==
    [stamp |-> clock_second, hash |-> HashOf(user_input) % 10000]

\* SmartHomeAgent._capture_context
CaptureContext(hour, day_of_week) == Ctx(hour, day_of_week)

\* agent_action {"error": ...} or {"response": ...}: a dict without actions
Opaque == [kind |-> "dict", hasActions |-> FALSE, actions |-> <<>>]

\* SmartHomeAgent._execute_tool_call: the arguments are adjusted, the device
\* operation gets the adjusted ones, every exception becomes a text
ExecuteToolCall(sim, prefs_table, conf_table, tool_name, arguments, context, clock) ==
    CHOOSE done \in
       { [sim |-> IF /\ tool_name = "set_temperature"
                     /\ {"device_id", "temp"} = DOMAIN adjusted_args
                  THEN SetTemperature(sim, adjusted_args.device_id, adjusted_args.temp).sim
                  ELSE sim,
          adjusted_args |-> adjusted_args] :
         adjusted_args \in {AdjustArguments(prefs_table, conf_table, tool_name,
                                            arguments, context, clock).arguments} } : TRUE

RECURSIVE RunToolCalls(_, _, _, _, _, _, _)
\* the for loop of process() over tool_calls from index i; json.loads of
\* the arguments of a call raises JSONDecodeError when they do not parse
RunToolCalls(acc, tool_calls, i, prefs_table, conf_table, context, clock) ==
    IF i > Len(tool_calls) \/ acc.raised THEN acc
    ELSE IF ~tool_calls[i].parses THEN [acc EXCEPT !.raised = TRUE]
    ELSE RunToolCalls(
            CHOOSE after \in
               { [acc EXCEPT !.sim = done.sim,
                             !.actions_taken = Append(@, ToolCall(tool_calls[i].name,
                                                                  tool_calls[i].arguments)),
                             !.performed = Append(@, ToolCall(tool_calls[i].name,
                                                              done.adjusted_args))] :
                 done \in {ExecuteToolCall(acc.sim, prefs_table, conf_table, tool_calls[i].name,
                                           tool_calls[i].arguments, context, clock)} } : TRUE,
            tool_calls, i + 1, prefs_table, conf_table, context, clock)

\* process() after the response has come: what it returns, what it logs,
\* the simulator it leaves, and the calls handed to _execute_tool_call with
\* the arguments the device operations got
ProcessRun(sim, prefs_table, conf_table, response, context, clock) ==
    IF response.kind = "error"
    THEN [sim |-> sim, success |-> FALSE, actions_taken |-> <<>>,
          agent_action |-> Opaque, performed |-> <<>>]
    ELSE IF response.tool_calls = <<>>
    THEN [sim |-> sim, success |-> TRUE, actions_taken |-> <<>>,
          agent_action |-> Opaque, performed |-> <<>>]
    ELSE CHOOSE returned \in
            { IF acc.raised
              THEN [sim |-> acc.sim, success |-> FALSE, actions_taken |-> <<>>,
                    agent_action |-> Opaque, performed |-> acc.performed]
              ELSE [sim |-> acc.sim, success |-> TRUE, actions_taken |-> acc.actions_taken,
                    agent_action |-> Actions(acc.actions_taken), performed |-> acc.performed] :
              acc \in {RunToolCalls([sim |-> sim, actions_taken |-> <<>>, performed |-> <<>>,
                                     raised |-> FALSE],
                                    response.tool_calls, 1, prefs_table, conf_table,
                                    context, clock)} } : TRUE

(***************************************************************************)
(* Inputs: the rows, the feedback and the queries of the engine.            *)
(***************************************************************************)
Thermostat == StrV(<<"t">>)

\* "set the thermostat to 24", on a weekday evening
LogTemp == [agent_action |-> Actions(<<ToolCall("set_temperature", [device_id |-> Thermostat, temp |-> IntV(24)])>>),
            context |-> Ctx(19, 0)]

\* three tool calls, one of them learnable with its parameter, on a weekday
\* morning
LogLights == [agent_action |-> Actions(<<ToolCall("turn_on_light", [device_id |-> Thermostat]),
                                         ToolCall("set_light_brightness", [device_id |-> Thermostat, level |-> IntV(50)]),
                                         ToolCall("set_fan_speed", [device_id |-> Thermostat])>>),
              context |-> Ctx(9, 0)]

\* the same command logged without a context
LogNoCtx == [agent_action |-> LogTemp.agent_action, context |-> NoCtx]

\* "24du": 24 degrees
Text24 == <<"2", "4", "du">>

\* "22.5C 50%": a temperature and a brightness
TextMixed == <<"2", "2", ".", "5", "C", " ", "5", "0", "%">>

\* "bu dui": wrong, with no number
TextWrong == <<"bu", "dui">>

\* what the user answers: corrected_command <<>> is None
Good == [feedback |-> 1, corrected_command |-> <<>>]

Bad(text) == [feedback |-> -1, corrected_command |-> text]

LogPool == {LogTemp, LogLights}

FeedbackPool == {Good, Bad(Text24), Bad(TextMixed)}

\* the calls predict and adjust_arguments are asked about
QueryPool ==
    { [tool |-> "set_temperature", arguments |-> [device_id |-> Thermostat, temp |-> IntV(26)]],
      [tool |-> "set_temperature", arguments |-> [device_id |-> Thermostat, temp |-> IntV(24)]],
      [tool |-> "set_light_brightness", arguments |-> [device_id |-> Thermostat, level |-> IntV(80)]],
      [tool |-> "set_fan_speed", arguments |-> [device_id |-> Thermostat]],
      [tool |-> "turn_on_light", arguments |-> [device_id |-> Thermostat]] }

\* a weekday evening (another hour and day than the logged ones) and a
\* weekday morning
QueryContexts == {Ctx(20, 1), Ctx(9, 0)}

\* the smaller inputs of the specification with the snapshot file
PersistLogPool == {LogTemp}

PersistFeedbackPool == {Good, Bad(Text24), Bad(<<>>), Bad(TextWrong)}

PersistQueryPool == {q \in QueryPool : q.tool = "set_temperature"}

PersistContexts == {Ctx(20, 1)}

\* the inputs of the specification with the clock, the store outage and the
\* rows written to the database directly
FaultLogPool == {LogTemp, LogNoCtx}

FaultFeedbackPool == {Good, Bad(Text24)}

Row(action_id, context, agent_action, feedback, corrected_command) ==
    [action_id |-> action_id, context |-> context, agent_action |-> agent_action,
     user_feedback |-> feedback, corrected_command |-> corrected_command]

\* rows with feedback whose structured columns are malformed
RawPool ==
    { [context |-> Ctx(19, 0), agent_action |-> NotADict("garbage"), f |-> Bad(Text24)],
      [context |-> Ctx(19, 0), agent_action |-> NotADict("number"), f |-> Good],
      [context |-> NotADict("list"), agent_action |-> LogTemp.agent_action, f |-> Bad(Text24)] }

\* the hours the clock shows
ClockHours == {10, 19}

\* a table of a document: one value, 22.0, for set_temperature on weekday
\* evenings
DocTable(n) ==
    [tool \in {"set_temperature"} |->
        [bucket \in {"evening_weekday"} |->
            <<[k |-> StrV(<<"2", "2", ".", "0">>), n |-> n]>>]]

\* the documents load_preferences can find that save_preferences did not
\* write: [1]; text that is no JSON; {}; an object with one of the two
\* keys; an object whose confidence is a number; a complete snapshot
ForeignDocs ==
    {Document("array", {}, {}, <<>>, <<>>),
     Document("garbage", {}, {}, <<>>, <<>>),
     Document("object", {}, {}, <<>>, <<>>),
     Document("object", {"confidence"}, {}, <<>>, DocTable(3)),
     Document("object", {"preferences"}, {}, DocTable(6), <<>>),
     Document("object", {"preferences"}, {"confidence"}, DocTable(6), <<>>),
     Document("object", {"preferences", "confidence"}, {}, DocTable(6), DocTable(3))}

SnapshotFeedbackPool == {Bad(Text24)}

\* one command that set two thermostats
LogTwoRooms ==
    [agent_action |-> Actions(<<ToolCall("set_temperature", [device_id |-> Thermostat, temp |-> IntV(22)]),
                                ToolCall("set_temperature", [device_id |-> StrV(<<"u">>), temp |-> IntV(24)])>>),
     context |-> Ctx(19, 0)]

\* "22" U+5EA6
Text22 == <<"2", "2", "du">>

TieLogPool == {LogTwoRooms}

TieFeedbackPool == {Good, Bad(Text24), Bad(Text22)}

TieQueryPool ==
    { [tool |-> "set_temperature", arguments |-> [device_id |-> Thermostat, temp |-> IntV(t)]] :
         t \in {22, 24, 26} }

\* the hours and days the classifier is asked about; 24 and 25 are no
\* hours of a day
ClassifierHours == 0..25

ClassifierDays == 0..6

(***************************************************************************)
(* Inputs of the agent and of the simulator.                               *)
(***************************************************************************)
\* a tool call of a response: function.name and function.arguments, which
\* is JSON text that parses or not
Call(name, arguments, parses) == [name |-> name, arguments |-> arguments, parses |-> parses]

Response(kind, tool_calls) == [kind |-> kind, tool_calls |-> tool_calls]

Room(device_id, temp) == [device_id |-> StrV(<<device_id>>), temp |-> IntV(temp)]

\* what the user says and what the language model answers: both
\* thermostats to 24; one to 26; one to 26 and then a call whose arguments
\* are no JSON; an error of the API; a text without tool calls
CommandPool ==
    { [user_input |-> "warm",
       response |-> Response("calls", <<Call("set_temperature", Room("t", 24), TRUE),
                                        Call("set_temperature", Room("u", 24), TRUE)>>)],
      [user_input |-> "hot",
       response |-> Response("calls", <<Call("set_temperature", Room("t", 26), TRUE)>>)],
      [user_input |-> "hot",
       response |-> Response("calls", <<Call("set_temperature", Room("t", 26), TRUE),
                                        Call("set_temperature", <<>>, FALSE)>>)],
      [user_input |-> "hot", response |-> Response("error", <<>>)],
      [user_input |-> "hello", response |-> Response("calls", <<>>)] }

\* the day of the week of the agent's clock
AgentDays == {0}

AgentFeedbackPool == {Good}

\* the thermostats the agent's simulator gets
AgentDevices == {Device(StrV(<<"t">>), "thermostat", DefaultTemp)}

\* log_interaction called by another caller than process()
DirectLogPool ==
    { [user_input |-> "warm", agent_action |-> LogTemp.agent_action, context |-> Ctx(19, 0)] }

\* the devices offered to the registry: two thermostats, one of them also
\* with a target set before it is registered, and a light under the id of a
\* thermostat
HomeDevices ==
    { Device(StrV(<<"t">>), "thermostat", DefaultTemp),
      Device(StrV(<<"t">>), "thermostat", IntV(25)),
      Device(StrV(<<"u">>), "thermostat", DefaultTemp),
      Device(StrV(<<"u">>), "light", DefaultTemp) }

\* 35 is out of the range of a thermostat
HomeTemps == {IntV(24), IntV(35)}

SharedFeedbackPool == {Good, Bad(Text24)}

(***************************************************************************)
(* The state machine.                                                      *)
(***************************************************************************)
Init ==
    /\ store = <<>>
    /\ dbOk = TRUE
    /\ now = 19
    /\ preferences = <<>>
    /\ confidence = <<>>
    /\ file = NoFile
    /\ result = [op |-> "init"]
    /\ peer = [preferences |-> <<>>, confidence |-> <<>>, training |-> FALSE]
    /\ home = NewSimulator(TRUE, NoStateFile)
    /\ second = 0
    /\ history = [performed |-> <<>>, registered |-> {}, touched |-> {},
                  at_start |-> NoStateFile, restarted |-> FALSE]

\* InteractionLogger.log_interaction: the row starts without feedback
LogInteraction(agent_action, context, action_id) ==
    /\ dbOk
    /\ Len(store) < MaxStore
    /\ store' = Append(store, Row(action_id, context, agent_action, 0, <<>>))
    /\ result' = [op |-> "log"]
    /\ UNCHANGED <<dbOk, now, preferences, confidence, file, peer, home, second, history>>

\* InteractionLogger.record_feedback: UPDATE ... WHERE action_id = ?
RecordFeedback(action_id, feedback, corrected_command) ==
    /\ dbOk
    /\ feedback \in {1, -1}
    /\ \E i \in 1..Len(store) : store[i].action_id = action_id
    /\ store' = [i \in 1..Len(store) |->
                    IF store[i].action_id = action_id
                    THEN [store[i] EXCEPT !.user_feedback = feedback,
                                          !.corrected_command = corrected_command]
                    ELSE store[i]]
    /\ result' = [op |-> "feedback"]
    /\ UNCHANGED <<dbOk, now, preferences, confidence, file, peer, home, second, history>>

\* a row with its feedback written by an INSERT of another program
InsertRaw(context, agent_action, feedback, corrected_command) ==
    /\ dbOk
    /\ Len(store) < MaxStore
    /\ store' = Append(store, Row(Len(store) + 1, context, agent_action, feedback, corrected_command))
    /\ result' = [op |-> "insert"]
    /\ UNCHANGED <<dbOk, now, preferences, confidence, file, peer, home, second, history>>

\* PreferenceModel.train: the tables are cleared, then the store is read
Train ==
    \E acc \in {TrainRun(preferences, confidence, store, now)} :
       /\ IF dbOk
          THEN /\ preferences' = acc.p
               /\ confidence' = acc.c
               /\ \E tools_updated \in ListOf(acc.tools) :
                     result' = IF acc.raised
                               THEN [op |-> "train", kind |-> "raised"]
                               ELSE [op |-> "train", kind |-> "stats",
                                     total_interactions |-> Len(SelectFeedback(store, Len(store))),
                                     preferences_learned |-> acc.learned,
                                     tools_updated |-> tools_updated]
          ELSE /\ preferences' = ClearTable(preferences)
               /\ confidence' = ClearTable(confidence)
               /\ result' = [op |-> "train", kind |-> "error"]
       /\ UNCHANGED <<store, dbOk, now, file, peer, home, second, history>>

\* a predict that indexes the defaultdicts, which creates the entries it
\* looks for
DoPredictCreating(tool_name, arguments, context) ==
    /\ result' = [op |-> "predict", tool |-> tool_name,
                  value |-> Predict(preferences, confidence, tool_name, arguments, context, now)]
    /\ preferences' = Put(preferences, tool_name,
                          Put(IF tool_name \in DOMAIN preferences THEN preferences[tool_name] ELSE <<>>,
                              GetContextKey(context, now),
                              Entries(preferences, tool_name, GetContextKey(context, now))))
    /\ UNCHANGED <<store, dbOk, now, confidence, file, peer, home, second, history>>

\* PreferenceModel.predict
DoPredict(tool_name, arguments, context) ==
    /\ result' = [op |-> "predict", tool |-> tool_name,
                  value |-> Predict(preferences, confidence, tool_name, arguments, context, now)]
    /\ UNCHANGED <<store, dbOk, now, preferences, confidence, file, peer, home, second, history>>

\* PreferenceModel.adjust_arguments
DoAdjust(tool_name, arguments, context) ==
    /\ result' = [op |-> "adjust", tool |-> tool_name,
                  value |-> AdjustArguments(preferences, confidence, tool_name, arguments, context, now)]
    /\ UNCHANGED <<store, dbOk, now, preferences, confidence, file, peer, home, second, history>>

\* PreferenceModel.save_preferences
Save ==
    /\ file' = SavedFile(preferences, confidence)
    /\ result' = [op |-> "save", raised |-> FALSE]
    /\ UNCHANGED <<store, dbOk, now, preferences, confidence, peer, home, second, history>>

\* save_preferences when open() raises OSError (no directory, no permission)
SaveFails ==
    /\ result' = [op |-> "save", raised |-> TRUE]
    /\ UNCHANGED <<store, dbOk, now, preferences, confidence, file, peer, home, second, history>>

\* save_preferences when the write stops after open() has truncated the
\* file (OSError from write, or the process ends)
SaveInterrupted ==
    /\ file' = TruncatedFile
    /\ result' = [op |-> "save", raised |-> TRUE]
    /\ UNCHANGED <<store, dbOk, now, preferences, confidence, peer, home, second, history>>

\* PreferenceModel.load_preferences
Load ==
    /\ IF LoadCaught(file)
       THEN /\ UNCHANGED <<preferences, confidence>>
            /\ result' = [op |-> "load", ok |-> FALSE, raised |-> FALSE]
       ELSE IF LoadRaisesFirst(file)
       THEN /\ UNCHANGED <<preferences, confidence>>
            /\ result' = [op |-> "load", ok |-> FALSE, raised |-> TRUE]
       ELSE IF LoadRaisesSecond(file)
       THEN /\ preferences' = LoadedPreferences(file)
            /\ UNCHANGED confidence
            /\ result' = [op |-> "load", ok |-> FALSE, raised |-> TRUE]
       ELSE /\ preferences' = LoadedPreferences(file)
            /\ confidence' = LoadedConfidence(file)
            /\ result' = [op |-> "load", ok |-> TRUE, raised |-> FALSE]
    /\ UNCHANGED <<store, dbOk, now, file, peer, home, second, history>>

\* another program, or a hand, writes the snapshot file
ForeignFile(document) ==
    /\ file' = document
    /\ result' = [op |-> "foreign"]
    /\ UNCHANGED <<store, dbOk, now, preferences, confidence, peer, home, second, history>>

\* PreferenceModel._get_context_key on a context with both keys
Classify(hour, day_of_week) ==
    /\ result' = [op |-> "classify", hour |-> hour, dow |-> day_of_week,
                  value |-> GetContextKey(Ctx(hour, day_of_week), now)]
    /\ UNCHANGED <<store, dbOk, now, preferences, confidence, file, peer, home, second, history>>

\* datetime.now().hour moves on
Tick(hour) ==
    /\ hour # now
    /\ now' = hour
    /\ UNCHANGED <<store, dbOk, preferences, confidence, file, result, peer, home, second, history>>

\* the database file becomes unreadable (sqlite3.Error on connect or execute)
\* or readable again
StoreOutage ==
    /\ dbOk' = ~dbOk
    /\ UNCHANGED <<store, now, preferences, confidence, file, result, peer, home, second, history>>

\* the wall clock reaches the next second
TickSecond ==
    /\ second < MaxSecond
    /\ second' = second + 1
    /\ UNCHANGED <<store, dbOk, now, preferences, confidence, file, result, peer, home, history>>

\* InteractionLogger.log_interaction called without an action_id
LogCommand(user_input, agent_action, context) ==
    /\ dbOk
    /\ Len(store) < MaxStore
    /\ store' = Append(store, Row(ActionId(second, user_input), context, agent_action, 0, <<>>))
    /\ result' = [op |-> "log"]
    /\ history' = [history EXCEPT !.performed = Append(@, [agent |-> FALSE, calls |-> <<>>])]
    /\ UNCHANGED <<dbOk, now, preferences, confidence, file, peer, home, second>>

\* SmartHomeAgent.process: the response of the language model is an input
Process(user_input, response, day_of_week) ==
    /\ dbOk
    /\ Len(store) < MaxStore
    /\ \E context \in {CaptureContext(now, day_of_week)} :
       \E run \in {ProcessRun(home, preferences, confidence, response, context, now)} :
          /\ home' = run.sim
          /\ store' = Append(store, Row(ActionId(second, user_input), context,
                                        run.agent_action, 0, <<>>))
          /\ result' = [op |-> "process", success |-> run.success,
                        action_id |-> ActionId(second, user_input),
                        actions_taken |-> run.actions_taken]
          /\ history' = [history EXCEPT
                            !.performed = Append(@, [agent |-> TRUE, calls |-> run.performed]),
                            !.touched = @ \cup {run.performed[i].arguments.device_id :
                                                   i \in 1..Len(run.performed)}]
    /\ UNCHANGED <<dbOk, now, preferences, confidence, file, peer, second>>

\* HomeSimulator.register_device
RegisterDevice(device) ==
    /\ \E done \in {Register(home, device)} :
          /\ home' = done.sim
          /\ result' = [op |-> "register", device_id |-> device.device_id,
                        raised |-> done.raised]
          /\ history' = [history EXCEPT
                            !.registered = IF done.raised THEN @ ELSE @ \cup {device.device_id}]
    /\ UNCHANGED <<store, dbOk, now, preferences, confidence, file, peer, second>>

\* HomeSimulator.unregister_device
UnregisterDevice(device_id) ==
    /\ \E done \in {Unregister(home, device_id)} :
          /\ home' = done.sim
          /\ result' = [op |-> "unregister", device_id |-> device_id, value |-> done.value]
          /\ history' = [history EXCEPT
                            !.registered = IF done.value THEN @ \ {device_id} ELSE @,
                            !.touched = @ \cup {device_id}]
    /\ UNCHANGED <<store, dbOk, now, preferences, confidence, file, peer, second>>

\* HomeSimulator.set_temperature called on the simulator
DoSetTemperature(device_id, temp) ==
    /\ \E done \in {SetTemperature(home, device_id, temp)} :
          /\ home' = done.sim
          /\ result' = [op |-> "set_temperature", device_id |-> device_id,
                        raised |-> done.raised]
          /\ history' = [history EXCEPT !.touched = @ \cup {device_id}]
    /\ UNCHANGED <<store, dbOk, now, preferences, confidence, file, peer, second>>

\* the program ends and starts again: HomeSimulator(persist_state) is
\* constructed on the state file the last session left
Restart(persist_state) ==
    /\ home' = NewSimulator(persist_state, home.state_file)
    /\ result' = [op |-> "restart"]
    /\ history' = [history EXCEPT !.registered = {}, !.touched = {},
                                  !.at_start = home.state_file, !.restarted = TRUE]
    /\ UNCHANGED <<store, dbOk, now, preferences, confidence, file, peer, second>>

\* train() of the second engine, up to its SELECT: the tables are cleared
PeerTrainBegin ==
    /\ ~peer.training
    /\ peer' = [preferences |-> ClearTable(peer.preferences),
                confidence |-> ClearTable(peer.confidence), training |-> TRUE]
    /\ result' = [op |-> "peer_train_begin"]
    /\ UNCHANGED <<store, dbOk, now, preferences, confidence, file, home, second, history>>

\* a second engine that is the first one (the engine handed out by a
\* module-level singleton): its train() rebuilds the tables of both
PeerTrainReadShared ==
    /\ peer.training
    /\ \E acc \in {TrainRun(peer.preferences, peer.confidence, store, now)} :
          /\ peer' = [preferences |-> acc.p, confidence |-> acc.c, training |-> FALSE]
          /\ preferences' = acc.p
          /\ confidence' = acc.c
          /\ result' = [op |-> "peer_train", raised |-> acc.raised]
    /\ UNCHANGED <<store, dbOk, now, file, home, second, history>>

\* train() of the second engine from its SELECT on: the store is read as it
\* is now and the tables are built from the rows
PeerTrainRead ==
    /\ peer.training
    /\ \E acc \in {TrainRun(peer.preferences, peer.confidence, store, now)} :
          /\ peer' = [preferences |-> acc.p, confidence |-> acc.c, training |-> FALSE]
          /\ result' = [op |-> "peer_train", raised |-> acc.raised]
    /\ UNCHANGED <<store, dbOk, now, preferences, confidence, file, home, second, history>>

\* predict and adjust_arguments of the second engine
PeerQuery(tool_name, arguments, context) ==
    /\ result' = [op |-> "peer_query", tool |-> tool_name,
                  value |-> Predict(peer.preferences, peer.confidence, tool_name,
                                    arguments, context, now),
                  adjusted |-> AdjustArguments(peer.preferences, peer.confidence, tool_name,
                                               arguments, context, now)]
    /\ UNCHANGED <<store, dbOk, now, preferences, confidence, file, peer, home, second, history>>

\* the engine on the store the agent writes
Next ==
    \/ \E l \in LogPool : LogInteraction(l.agent_action, l.context, Len(store) + 1)
    \/ \E i \in 1..MaxStore, f \in FeedbackPool : RecordFeedback(i, f.feedback, f.corrected_command)
    \/ Train
    \/ \E q \in QueryPool, c \in QueryContexts : DoPredict(q.tool, q.arguments, c)
    \/ \E q \in QueryPool, c \in QueryContexts : DoAdjust(q.tool, q.arguments, c)

Spec == Init /\ [][Next]_vars

\* the engine with its snapshot file
NextPersist ==
    \/ \E l \in PersistLogPool : LogInteraction(l.agent_action, l.context, Len(store) + 1)
    \/ \E i \in 1..MaxStore, f \in PersistFeedbackPool : RecordFeedback(i, f.feedback, f.corrected_command)
    \/ Train
    \/ \E q \in PersistQueryPool, c \in PersistContexts : DoPredict(q.tool, q.arguments, c)
    \/ \E q \in PersistQueryPool, c \in PersistContexts : DoAdjust(q.tool, q.arguments, c)
    \/ Save
    \/ Load

SpecPersist == Init /\ [][NextPersist]_vars

\* the engine with a moving clock, a store that can be unreadable and rows
\* the logger did not write
NextFaults ==
    \/ \E l \in FaultLogPool : LogInteraction(l.agent_action, l.context, Len(store) + 1)
    \/ \E i \in 1..MaxStore, f \in FaultFeedbackPool : RecordFeedback(i, f.feedback, f.corrected_command)
    \/ \E r \in RawPool : InsertRaw(r.context, r.agent_action, r.f.feedback, r.f.corrected_command)
    \/ Train
    \/ \E h \in ClockHours : Tick(h)
    \/ StoreOutage

SpecFaults == Init /\ [][NextFaults]_vars

\* the engine with a snapshot file that writes can fail on and that other
\* programs can write
NextSnapshot ==
    \/ \E l \in PersistLogPool : LogInteraction(l.agent_action, l.context, Len(store) + 1)
    \/ \E i \in 1..MaxStore, f \in SnapshotFeedbackPool : RecordFeedback(i, f.feedback, f.corrected_command)
    \/ Train
    \/ \E q \in PersistQueryPool, c \in PersistContexts : DoPredict(q.tool, q.arguments, c)
    \/ Save
    \/ SaveFails
    \/ SaveInterrupted
    \/ Load
    \/ \E d \in ForeignDocs : ForeignFile(d)

SpecSnapshot == Init /\ [][NextSnapshot]_vars

\* the engine on commands that set the same parameter twice
NextTies ==
    \/ \E l \in TieLogPool : LogInteraction(l.agent_action, l.context, Len(store) + 1)
    \/ \E i \in 1..MaxStore, f \in TieFeedbackPool : RecordFeedback(i, f.feedback, f.corrected_command)
    \/ Train
    \/ \E q \in TieQueryPool, c \in PersistContexts : DoPredict(q.tool, q.arguments, c)

SpecTies == Init /\ [][NextTies]_vars

\* the classifier alone, under a moving clock
NextClassifier ==
    \/ \E h \in ClassifierHours, d \in ClassifierDays : Classify(h, d)
    \/ \E h \in ClockHours : Tick(h)

SpecClassifier == Init /\ [][NextClassifier]_vars

\* the agent with the simulator, the engine and the store, under a clock
\* that counts seconds
NextAgent ==
    \/ \E d \in AgentDevices : RegisterDevice(d)
    \/ \E c \in CommandPool, day \in AgentDays : Process(c.user_input, c.response, day)
    \/ \E i \in 1..Len(store), f \in AgentFeedbackPool :
          RecordFeedback(store[i].action_id, f.feedback, f.corrected_command)
    \/ Train
    \/ TickSecond

SpecAgent == Init /\ [][NextAgent]_vars

\* the logger called by the agent and by other callers, under a clock that
\* counts seconds
NextLogger ==
    \/ \E c \in CommandPool, day \in AgentDays : Process(c.user_input, c.response, day)
    \/ \E c \in DirectLogPool : LogCommand(c.user_input, c.agent_action, c.context)
    \/ \E i \in 1..Len(store), f \in AgentFeedbackPool :
          RecordFeedback(store[i].action_id, f.feedback, f.corrected_command)
    \/ Train
    \/ TickSecond

SpecLogger == Init /\ [][NextLogger]_vars

\* the simulator over several sessions of the program
NextHome ==
    \/ \E d \in HomeDevices : RegisterDevice(d)
    \/ \E d \in HomeDevices : UnregisterDevice(d.device_id)
    \/ \E d \in HomeDevices, temp \in HomeTemps : DoSetTemperature(d.device_id, temp)
    \/ \E persist_state \in BOOLEAN : Restart(persist_state)

SpecHome == Init /\ [][NextHome]_vars

\* two engines on one store
NextShared ==
    \/ \E l \in PersistLogPool : LogInteraction(l.agent_action, l.context, Len(store) + 1)
    \/ \E i \in 1..MaxStore, f \in SharedFeedbackPool : RecordFeedback(i, f.feedback, f.corrected_command)
    \/ Train
    \/ \E q \in PersistQueryPool, c \in PersistContexts : DoAdjust(q.tool, q.arguments, c)
    \/ PeerTrainBegin
    \/ PeerTrainRead
    \/ \E q \in PersistQueryPool, c \in PersistContexts : PeerQuery(q.tool, q.arguments, c)

SpecShared == Init /\ [][NextShared]_vars

(***************************************************************************)
(* What the claims speak of, stated from the store and the specification's *)
(* own words rather than through the engine.                               *)
(***************************************************************************)
WeekdayBucket ==
    [early_morning |-> "early_morning_weekday", morning |-> "morning_weekday",
     afternoon |-> "afternoon_weekday", evening |-> "evening_weekday",
     night |-> "night_weekday", late_night |-> "late_night_weekday"]

WeekendBucket ==
    [early_morning |-> "early_morning_weekend", morning |-> "morning_weekend",
     afternoon |-> "afternoon_weekend", evening |-> "evening_weekend",
     night |-> "night_weekend", late_night |-> "late_night_weekend"]

\* the bucket of a context that carries time_of_day and day_of_week
ClaimBucket(context) ==
    LET h == context.hour
        period == IF h \in 5..7 THEN "early_morning"
                  ELSE IF h \in 8..11 THEN "morning"
                  ELSE IF h \in 12..16 THEN "afternoon"
                  ELSE IF h \in 17..20 THEN "evening"
                  ELSE IF h \in 0..4 THEN "late_night"
                  ELSE "night"
    IN IF context.dow >= 5 THEN WeekendBucket[period] ELSE WeekdayBucket[period]

ClaimBuckets == {WeekdayBucket[x] : x \in DOMAIN WeekdayBucket} \cup {WeekendBucket[x] : x \in DOMAIN WeekendBucket}

NoValue == [t |-> "none", n |-> 0, s |-> <<>>]

\* the value a correction text names for a tool's parameter family
CorrectionValue(tool, text) ==
    LET units == CASE tool = "set_temperature" -> TempUnits
                   [] tool = "set_light_brightness" -> PercentUnits
                   [] tool = "set_fan_speed" -> SpeedUnits
        group == SearchGroup(text, units, tool = "set_temperature")
    IN IF group = <<>> THEN NoValue
       ELSE IF tool = "set_temperature" THEN FloatOf(group) ELSE IntOf(group)

FeedbackRows == {i \in 1..Len(store) : store[i].user_feedback # 0}

\* the rows that are corrections of tool in bucket
CorrectionRows(tool, bucket) ==
    {i \in 1..Len(store) :
        /\ store[i].user_feedback = -1
        /\ store[i].corrected_command # <<>>
        /\ store[i].context.kind = "dict"
        /\ ClaimBucket(store[i].context) = bucket
        /\ CorrectionValue(tool, store[i].corrected_command) # NoValue}

\* the confirmed actions of tool in bucket, as <<row, index of the action>>
ReinforcedActions(tool, bucket) ==
    {ia \in (1..Len(store)) \X (1..3) :
        /\ store[ia[1]].user_feedback = 1
        /\ store[ia[1]].context.kind = "dict"
        /\ ClaimBucket(store[ia[1]].context) = bucket
        /\ store[ia[1]].agent_action.kind = "dict"
        /\ ia[2] <= Len(store[ia[1]].agent_action.actions)
        /\ store[ia[1]].agent_action.actions[ia[2]].tool = tool
        /\ tool \in LearnableTools
        /\ LEARNABLE_PARAMS(tool) \in DOMAIN store[ia[1]].agent_action.actions[ia[2]].arguments}

\* C: the corrections of tool in bucket that name v
CountC(tool, bucket, v) ==
    Cardinality({i \in CorrectionRows(tool, bucket) :
                    PyEq(CorrectionValue(tool, store[i].corrected_command), v)})

\* R: the confirmed actions of tool in bucket that carry v
CountR(tool, bucket, v) ==
    Cardinality({ia \in ReinforcedActions(tool, bucket) :
                    PyEq(store[ia[1]].agent_action.actions[ia[2]].arguments[LEARNABLE_PARAMS(tool)], v)})

\* the count the table holds for v (0 when v is no key)
Held(table, tool, bucket, v) ==
    LET entries == Entries(table, tool, bucket)
        hit == {i \in 1..Len(entries) : PyEq(entries[i].k, v)}
    IN IF hit = {} THEN 0 ELSE entries[CHOOSE i \in hit : TRUE].n

Trained == result.op = "train" /\ result.kind = "stats"

\* the queries of the model for tool that carry its parameter
Proposals(tool) ==
    {q \in QueryPool : q.tool = tool /\ tool \in LearnableTools
                       /\ LEARNABLE_PARAMS(tool) \in DOMAIN q.arguments}

Proposed(q) == q.arguments[LEARNABLE_PARAMS(q.tool)]

\* the values the inputs of the model can teach
ClaimValues == {FloatV(240), FloatV(225), IntV(50), IntV(24)}

\* whether the characters sub occur in text, one after the other
Contains(text, sub) ==
    \E i \in 0..(Len(text) - Len(sub)) : SubSeq(text, i + 1, i + Len(sub)) = sub

\* a number as the user writes it: 24 for 24.0, 22.5 for 22.5
Written(v) == IF v.n % 10 = 0 THEN NatStr(v.n \div 10) ELSE PyStr(FloatV(v.n))

(***************************************************************************)
(* C1. Confidence gate: predict returns a Prediction only if the best      *)
(* count of (tool, bucket) is at least 2, and that count is the one it     *)
(* reports; after training on a store with a single learning event for a   *)
(* (tool, bucket) predict returns none there; after training on a store    *)
(* whose only events for (tool, bucket) are two corrections naming v,      *)
(* predict for a proposal other than v suggests v.                         *)
(***************************************************************************)
ConfidenceGate ==
    /\ \A q \in QueryPool, c \in QueryContexts :
          LET r == Predict(preferences, confidence, q.tool, q.arguments, c, now)
              confs == Entries(confidence, q.tool, ClaimBucket(c))
          IN r # None =>
                \E i \in 1..Len(confs) :
                    /\ confs[i].n >= 2
                    /\ \A j \in 1..Len(confs) : confs[j].n <= confs[i].n
                    /\ r.confidence = confs[i].n
    /\ result.op = "predict" /\ result.value # None => result.value.confidence >= 2
    /\ Trained =>
          \A tool \in LearnableTools, c \in QueryContexts :
             LET b == ClaimBucket(c)
                 events == Cardinality(CorrectionRows(tool, b)) + Cardinality(ReinforcedActions(tool, b))
             IN /\ events = 1 =>
                      \A q \in QueryPool :
                         q.tool = tool => Predict(preferences, confidence, tool, q.arguments, c, now) = None
                /\ \A v \in ClaimValues :
                      events = 2 /\ CountC(tool, b, v) = 2 =>
                         \A q \in Proposals(tool) :
                            ~PyEq(Proposed(q), v) =>
                               LET r == Predict(preferences, confidence, tool, q.arguments, c, now)
                               IN r # None /\ PyEq(r.suggested_value, v)

\* predict has returned a Prediction on tables trained from two corrections
\* "24du" of a weekday evening
ConfidenceGateWitness ==
    /\ result.op = "predict"
    /\ result.value # None
    /\ PyEq(result.value.suggested_value, IntV(24))
    /\ result.value.confidence = 2
    /\ Cardinality(CorrectionRows("set_temperature", "evening_weekday")) = 2
    /\ Cardinality(FeedbackRows) = 2

(***************************************************************************)
(* C2. Learned override end to end: when the feedback rows of the store    *)
(* are n >= 2 corrections that name the temperature v, all in bucket b,    *)
(* then after train() predict for set_temperature with p # v in b returns  *)
(* {temp, p, v, n, b}, and adjust returns the arguments with temp = v and  *)
(* an explanation in which v is written.                                   *)
(***************************************************************************)
LearnedOverride ==
    Trained =>
       \A c \in QueryContexts, v \in ClaimValues :
          LET b == ClaimBucket(c)
              n == Cardinality(FeedbackRows)
          IN ( /\ n >= 2
               /\ FeedbackRows = CorrectionRows("set_temperature", b)
               /\ CountC("set_temperature", b, v) = n )
             => \A q \in Proposals("set_temperature") :
                   ~PyEq(Proposed(q), v) =>
                      LET r == Predict(preferences, confidence, q.tool, q.arguments, c, now)
                          a == AdjustArguments(preferences, confidence, q.tool, q.arguments, c, now)
                      IN /\ r # None
                         /\ r.parameter = "temp"
                         /\ r.original_value = Proposed(q)
                         /\ PyEq(r.suggested_value, v)
                         /\ r.confidence = n
                         /\ r.context = b
                         /\ DOMAIN a.arguments = DOMAIN q.arguments
                         /\ PyEq(a.arguments.temp, v)
                         /\ a.arguments.device_id = q.arguments.device_id
                         /\ a.explanation # <<>>
                         /\ Contains(a.explanation, Written(v))

\* trained on three corrections "24du" of a weekday evening, nothing else
LearnedOverrideWitness ==
    /\ Trained
    /\ Cardinality(FeedbackRows) = 3
    /\ FeedbackRows = CorrectionRows("set_temperature", "evening_weekday")
    /\ CountC("set_temperature", "evening_weekday", IntV(24)) = 3
    /\ Predict(preferences, confidence, "set_temperature",
               [device_id |-> Thermostat, temp |-> IntV(26)], Ctx(20, 1), now) # None

(***************************************************************************)
(* C3. Context isolation: after train(), what the tables hold for a bucket *)
(* b2, and so what predict returns under b2, is what training on the store *)
(* without the rows of any other bucket b1 gives.  (Two stores that differ *)
(* only in rows of b1 have the same rows outside b1.)                      *)
(***************************************************************************)
WithoutBucket(rows, b1) ==
    SelectSeq(rows, LAMBDA r : ~(r.context.kind = "dict" /\ ClaimBucket(r.context) = b1))

ContextIsolation ==
    Trained =>
       \A b1 \in {ClaimBucket(store[i].context) : i \in 1..Len(store)} :
          LET other == TrainRun(<<>>, <<>>, WithoutBucket(store, b1), now)
          IN /\ \A tool \in LearnableTools, b2 \in ClaimBuckets \ {b1} :
                   /\ Entries(confidence, tool, b2) = Entries(other.c, tool, b2)
                   /\ Entries(preferences, tool, b2) = Entries(other.p, tool, b2)
             /\ \A q \in QueryPool, c \in QueryContexts :
                   ClaimBucket(c) # b1 =>
                      Predict(preferences, confidence, q.tool, q.arguments, c, now)
                         = Predict(other.p, other.c, q.tool, q.arguments, c, now)

\* trained on a store with a correction in the morning and two in the
\* evening, which give a prediction for the evening
ContextIsolationWitness ==
    /\ Trained
    /\ Cardinality(CorrectionRows("set_temperature", "morning_weekday")) = 1
    /\ Cardinality(CorrectionRows("set_temperature", "evening_weekday")) = 2
    /\ Predict(preferences, confidence, "set_temperature",
               [device_id |-> Thermostat, temp |-> IntV(26)], Ctx(20, 1), now) # None
    /\ Predict(preferences, confidence, "set_temperature",
               [device_id |-> Thermostat, temp |-> IntV(26)], Ctx(9, 0), now) = None

(***************************************************************************)
(* C7. Learning rules: after train() every count is C + R and every weight *)
(* 2C + R, the tables hold an entry exactly where C + R > 0, and only the  *)
(* three learnable tools have entries.                                     *)
(***************************************************************************)
LearningRules ==
    Trained =>
       /\ DOMAIN confidence \subseteq LearnableTools
       /\ DOMAIN preferences = DOMAIN confidence
       /\ \A tool \in DOMAIN confidence :
             /\ DOMAIN confidence[tool] \subseteq ClaimBuckets
             /\ DOMAIN preferences[tool] = DOMAIN confidence[tool]
             /\ \A b \in DOMAIN confidence[tool] :
                   /\ Len(preferences[tool][b]) = Len(confidence[tool][b])
                   /\ \A i \in 1..Len(confidence[tool][b]) :
                         LET v == confidence[tool][b][i].k
                         IN /\ CountC(tool, b, v) + CountR(tool, b, v) > 0
                            /\ \A j \in 1..Len(confidence[tool][b]) :
                                  PyEq(confidence[tool][b][j].k, v) => j = i
       /\ \A tool \in LearnableTools, b \in ClaimBuckets, v \in ClaimValues :
             /\ Held(confidence, tool, b, v) = CountC(tool, b, v) + CountR(tool, b, v)
             /\ Held(preferences, tool, b, v) = 2 * CountC(tool, b, v) + CountR(tool, b, v)

\* trained on a correction naming 24 and a confirmed action that used 24 in
\* the same bucket, and a confirmed multi-action row
LearningRulesWitness ==
    /\ Trained
    /\ CountC("set_temperature", "evening_weekday", IntV(24)) = 1
    /\ CountR("set_temperature", "evening_weekday", IntV(24)) = 1
    /\ CountR("set_light_brightness", "morning_weekday", IntV(50)) = 1
    /\ Held(preferences, "set_temperature", "evening_weekday", IntV(24)) = 3

(***************************************************************************)
(* C8. Records without a learnable signal are no-ops: after train() the    *)
(* tables, preferences_learned and tools_updated are what training on the  *)
(* store without the records that have no feedback, feedback -1 without    *)
(* correction text, or feedback -1 with a text no pattern matches gives;   *)
(* a store of such records only leaves both tables empty; train() returns  *)
(* its stats.                                                              *)
(***************************************************************************)
NoSignal(row) ==
    \/ row.user_feedback = 0
    \/ /\ row.user_feedback = -1
       /\ \/ row.corrected_command = <<>>
          \/ \A tool \in LearnableTools : CorrectionValue(tool, row.corrected_command) = NoValue

NoSignalNoOp ==
    /\ result.op = "train" => result.kind = "stats"
    /\ Trained =>
          LET signal == SelectSeq(store, LAMBDA r : ~NoSignal(r))
              other == TrainRun(<<>>, <<>>, signal, now)
          IN /\ preferences = other.p
             /\ confidence = other.c
             /\ result.preferences_learned = other.learned
             /\ result.tools_updated \in ListOf(other.tools)
             /\ signal = <<>> =>
                   /\ preferences = <<>> /\ confidence = <<>>
                   /\ result.preferences_learned = 0
                   /\ result.tools_updated = <<>>

\* trained on a store that holds a rejected row without text, a rejected
\* row whose text names no value, and a confirmed row
NoSignalNoOpWitness ==
    /\ Trained
    /\ \E i \in 1..Len(store) : store[i].user_feedback = -1 /\ store[i].corrected_command = <<>>
    /\ \E i \in 1..Len(store) : store[i].user_feedback = -1 /\ store[i].corrected_command = TextWrong
    /\ \E i \in 1..Len(store) : store[i].user_feedback = 1
    /\ result.preferences_learned = 1

(***************************************************************************)
(* C4. No redundant override: whenever the most-supported value held for   *)
(* (tool, bucket(ctx)) is the number the caller proposes, predict returns  *)
(* none and adjust returns the arguments as they came, with no             *)
(* explanation.                                                            *)
(***************************************************************************)
\* the number a key stands for, also when it was written to a snapshot
Denotes(k) == IF k.t = "str" THEN FloatOf(k.s) ELSE k

NoRedundantOverride ==
    \A q \in Proposals("set_temperature"), c \in PersistContexts :
       LET confs == Entries(confidence, q.tool, ClaimBucket(c))
           top == {i \in 1..Len(confs) : \A j \in 1..Len(confs) : confs[j].n <= confs[i].n}
       IN (confs # <<>> /\ \A i \in top : PyEq(Denotes(confs[i].k), Proposed(q)))
          => /\ Predict(preferences, confidence, q.tool, q.arguments, c, now) = None
             /\ AdjustArguments(preferences, confidence, q.tool, q.arguments, c, now)
                   = [arguments |-> q.arguments, explanation |-> <<>>]

(***************************************************************************)
(* C6. Round-trip persistence: the tables a fresh engine loads from the    *)
(* file save() wrote have the keys and the numbers of the saved tables.    *)
(***************************************************************************)
SameTable(loaded, saved) ==
    /\ DOMAIN loaded = DOMAIN saved
    /\ \A tool \in DOMAIN saved :
          /\ DOMAIN loaded[tool] = DOMAIN saved[tool]
          /\ \A b \in DOMAIN saved[tool] :
                /\ Len(loaded[tool][b]) = Len(saved[tool][b])
                /\ \A i \in 1..Len(saved[tool][b]) :
                      /\ PyEq(loaded[tool][b][i].k, saved[tool][b][i].k)
                      /\ loaded[tool][b][i].n = saved[tool][b][i].n

RoundTrip ==
    result.op = "save" =>
       /\ SameTable(LoadedPreferences(file), preferences)
       /\ SameTable(LoadedConfidence(file), confidence)

(***************************************************************************)
(* C5. Training is a function of the store: the tables train() leaves are  *)
(* the tables training on the same store gives at any hour of the clock,   *)
(* starting from any tables.                                               *)
(***************************************************************************)
TrainingIsFunctionOfStore ==
    Trained =>
       \A h \in ClockHours :
          LET again == TrainRun(preferences, confidence, store, h)
          IN preferences = again.p /\ confidence = again.c

(***************************************************************************)
(* C9. Store unavailable: a train() that returns the error result leaves   *)
(* both tables as they were before the call.                               *)
(***************************************************************************)
StoreUnavailableKeepsTables ==
    [][ (result'.op = "train" /\ result'.kind = "error")
           => (preferences' = preferences /\ confidence' = confidence) ]_vars

(***************************************************************************)
(* C10. Malformed records never abort training: a train() on a readable    *)
(* store returns its stats, and leaves the tables and the learned count    *)
(* that training on the store without the records whose agent_action or    *)
(* context is unparseable or not an object gives.                          *)
(***************************************************************************)
Malformed(row) == row.agent_action.kind # "dict" \/ row.context.kind # "dict"

MalformedRecordsSkipped ==
    (result.op = "train" /\ result.kind # "error") =>
       /\ result.kind = "stats"
       /\ \E h \in ClockHours :
             LET other == TrainRun(<<>>, <<>>, SelectSeq(store, LAMBDA r : ~Malformed(r)), h)
             IN /\ preferences = other.p
                /\ confidence = other.c
                /\ result.preferences_learned = other.learned

(***************************************************************************)
(* C11. Failed load is harmless: a load on an absent file or a malformed   *)
(* document (unparseable, or parseable but no object with table objects)   *)
(* returns false, does not raise, and leaves both tables as they were.     *)
(***************************************************************************)
MalformedDocument(document) ==
    document.exists /\ (document.kind # "object" \/ document.bad # {})

FailedLoadHarmless ==
    [][ (result'.op = "load" /\ (~file.exists \/ MalformedDocument(file)))
           => /\ ~result'.raised
              /\ ~result'.ok
              /\ preferences' = preferences
              /\ confidence' = confidence ]_vars

(***************************************************************************)
(* C12. Failed save is not fatal: save never ends with an exception; a     *)
(* write failure is reported through its return value.                     *)
(***************************************************************************)
SaveFailureReported ==
    result.op = "save" => ~result.raised

(***************************************************************************)
(* C13. Atomic snapshot: the snapshot file is at every point absent or a   *)
(* complete document, never the beginning of one.                          *)
(***************************************************************************)
AtomicSnapshot ==
    file.exists => file.kind # "truncated"

(***************************************************************************)
(* C14. Load replaces wholesale: after a load that returned true, each     *)
(* table is exactly the table the document holds under its key, or empty   *)
(* when the document has no such key, and when a key is missing predict    *)
(* returns none for every input.                                           *)
(***************************************************************************)
TableKeys == {"preferences", "confidence"}

LoadReplacesWholesale ==
    (result.op = "load" /\ result.ok) =>
       /\ preferences = IF "preferences" \in file.keys THEN file.preferences ELSE <<>>
       /\ confidence = IF "confidence" \in file.keys THEN file.confidence ELSE <<>>
       /\ file.keys # TableKeys =>
             \A q \in QueryPool, c \in QueryContexts :
                Predict(preferences, confidence, q.tool, q.arguments, c, now) = None

\* a load has returned true on a document that has only the confidence
\* table, while the store holds what an earlier train() learned from
LoadReplacesWholesaleWitness ==
    /\ result.op = "load"
    /\ result.ok
    /\ file.keys = {"confidence"}
    /\ preferences = <<>>
    /\ confidence = DocTable(3)
    /\ Cardinality(CorrectionRows("set_temperature", "evening_weekday")) >= 2

(***************************************************************************)
(* C19. The confidence table alone is the decision signal: predict returns *)
(* a Prediction exactly when the confidence entry of (tool, bucket) is     *)
(* non-empty, its best count is >= 2 and its best value differs from the   *)
(* proposal.                                                               *)
(***************************************************************************)
ConfidenceDecides(conf_table, q, c) ==
    LET confs == Entries(conf_table, q.tool, ClaimBucket(c))
        top == {i \in 1..Len(confs) : \A j \in 1..Len(confs) : confs[j].n <= confs[i].n}
    IN /\ q.tool \in LearnableTools
       /\ LEARNABLE_PARAMS(q.tool) \in DOMAIN q.arguments
       /\ confs # <<>>
       /\ \E i \in top :
             /\ \A j \in top : i <= j
             /\ confs[i].n >= 2
             /\ ~PyEq(confs[i].k, Proposed(q))

ConfidenceAlone ==
    \A q \in PersistQueryPool, c \in PersistContexts :
       (Predict(preferences, confidence, q.tool, q.arguments, c, now) # None)
          <=> ConfidenceDecides(confidence, q, c)

(***************************************************************************)
(* C19, amended.  predict returns a Prediction exactly when the weight     *)
(* table has an entry for (tool, bucket) and the confidence entry is       *)
(* non-empty, has a best count >= 2 and a best value that differs from the *)
(* proposal; the numbers the weight table holds never change the outcome.  *)
(***************************************************************************)
\* the weight table with every weight set to w
Reweighted(table, w) ==
    [tool \in DOMAIN table |->
        [bucket \in DOMAIN table[tool] |->
            [i \in 1..Len(table[tool][bucket]) |-> [table[tool][bucket][i] EXCEPT !.n = w]]]]

ConfidenceWithWeightEntry ==
    \A q \in PersistQueryPool, c \in PersistContexts :
       LET r == Predict(preferences, confidence, q.tool, q.arguments, c, now)
       IN /\ (r # None) <=> /\ Entries(preferences, q.tool, ClaimBucket(c)) # <<>>
                            /\ ConfidenceDecides(confidence, q, c)
          /\ \A w \in {0, 1, 7} :
                Predict(Reweighted(preferences, w), confidence, q.tool, q.arguments, c, now) = r

\* the tables are those of a loaded document with both keys, and predict
\* has followed the loaded counts
ConfidenceWithWeightEntryWitness ==
    /\ result.op = "predict"
    /\ result.value # None
    /\ result.value.confidence = 3
    /\ confidence = DocTable(3)
    /\ preferences = DocTable(6)

(***************************************************************************)
(* C15. Prediction and adjustment are read-only: a predict or an adjust    *)
(* leaves both tables, the store and the snapshot file as they were; the   *)
(* tables change only in train and load, the file only in save, and the    *)
(* store in none of the engine's operations.                               *)
(***************************************************************************)
ReadOnly ==
    [][ /\ result'.op \in {"predict", "adjust"} =>
              /\ preferences' = preferences
              /\ confidence' = confidence
              /\ store' = store
              /\ file' = file
        /\ (preferences' # preferences \/ confidence' # confidence) =>
              result'.op \in {"train", "load"}
        /\ file' # file => result'.op = "save"
        /\ store' # store => result'.op \in {"log", "feedback"} ]_vars

\* predict has returned none on an engine that was never trained, with
\* feedback in the store and a snapshot on disk
ReadOnlyWitness ==
    /\ result.op = "predict"
    /\ result.value = None
    /\ preferences = <<>>
    /\ confidence = <<>>
    /\ FeedbackRows # {}
    /\ file.exists

(***************************************************************************)
(* C16. Adjust contract: when predict returns none, adjust returns the     *)
(* arguments as they came and no explanation; otherwise it returns the     *)
(* same argument keys, the learnable parameter set to the learned value as *)
(* the table holds it, every other key with its value, and an explanation  *)
(* that names the bucket, the value and the count.                         *)
(***************************************************************************)
AdjustContract ==
    \A q \in QueryPool, c \in QueryContexts :
       LET r == Predict(preferences, confidence, q.tool, q.arguments, c, now)
           a == AdjustArguments(preferences, confidence, q.tool, q.arguments, c, now)
       IN IF r = None
          THEN a.arguments = q.arguments /\ a.explanation = <<>>
          ELSE /\ DOMAIN a.arguments = DOMAIN q.arguments
               /\ \A key \in DOMAIN q.arguments :
                     IF key = LEARNABLE_PARAMS(q.tool)
                     THEN /\ a.arguments[key] = r.suggested_value
                          /\ \E i \in 1..Len(Entries(confidence, q.tool, ClaimBucket(c))) :
                                Entries(confidence, q.tool, ClaimBucket(c))[i].k = a.arguments[key]
                     ELSE a.arguments[key] = q.arguments[key]
               /\ Contains(a.explanation, <<ClaimBucket(c)>>)
               /\ Contains(a.explanation, PyStr(r.suggested_value))
               /\ Contains(a.explanation, NatStr(r.confidence))

\* adjust has overridden the brightness of a light with a learned value
AdjustContractWitness ==
    /\ result.op = "adjust"
    /\ result.tool = "set_light_brightness"
    /\ result.value.explanation # <<>>
    /\ result.value.arguments.level = IntV(50)
    /\ "device_id" \in DOMAIN result.value.arguments

(***************************************************************************)
(* C17. Predict returns none when nothing applies: the tool is not         *)
(* learnable, the arguments lack its parameter, or a table has no entry    *)
(* for (tool, bucket); with both tables empty it returns none for every    *)
(* input; what it returns is none or a Prediction.                         *)
(***************************************************************************)
PredictNoneWhenInapplicable ==
    /\ \A q \in QueryPool, c \in QueryContexts :
          LET r == Predict(preferences, confidence, q.tool, q.arguments, c, now)
          IN /\ r = None \/ r.kind = "prediction"
             /\ ( \/ q.tool \notin LearnableTools
                  \/ LEARNABLE_PARAMS(q.tool) \notin DOMAIN q.arguments
                  \/ Entries(confidence, q.tool, ClaimBucket(c)) = <<>>
                  \/ Entries(preferences, q.tool, ClaimBucket(c)) = <<>>
                  \/ (preferences = <<>> /\ confidence = <<>>) ) => r = None
    /\ result.op = "predict" /\ result.tool \notin LearnableTools => result.value = None

\* predict has returned none for a brightness in a bucket without entries
\* while another bucket of the tool holds a value learned twice
PredictNoneWhenInapplicableWitness ==
    /\ result.op = "predict"
    /\ result.tool = "set_light_brightness"
    /\ result.value = None
    /\ Held(confidence, "set_light_brightness", "morning_weekday", IntV(50)) >= 2
    /\ Entries(confidence, "set_light_brightness", "evening_weekend") = <<>>

(***************************************************************************)
(* C18. Best-value selection: a Prediction suggests a value whose count is *)
(* maximal for (tool, bucket), reports that count, and among values tied   *)
(* at the maximum suggests the first in the table's order; after train()   *)
(* the table's order is the order in which the values are first met when   *)
(* the feedback records are scanned from the most recent to the oldest.    *)
(***************************************************************************)
\* the values a record teaches tool in bucket, in the order it teaches them
RowEvents(row, tool, bucket) ==
    IF row.context.kind # "dict" \/ ClaimBucket(row.context) # bucket THEN <<>>
    ELSE IF row.user_feedback = -1 /\ row.corrected_command # <<>>
    THEN IF CorrectionValue(tool, row.corrected_command) = NoValue THEN <<>>
         ELSE <<CorrectionValue(tool, row.corrected_command)>>
    ELSE IF row.user_feedback = 1 /\ row.agent_action.kind = "dict"
    THEN LET taught == SelectSeq(row.agent_action.actions,
                                 LAMBDA a : a.tool = tool /\ LEARNABLE_PARAMS(tool) \in DOMAIN a.arguments)
         IN [k \in 1..Len(taught) |-> taught[k].arguments[LEARNABLE_PARAMS(tool)]]
    ELSE <<>>

RECURSIVE ScanEvents(_, _, _)
\* the events of rows i, i - 1, ..., 1
ScanEvents(i, tool, bucket) ==
    IF i = 0 THEN <<>>
    ELSE RowEvents(store[i], tool, bucket) \o ScanEvents(i - 1, tool, bucket)

\* the positions of events at which a value is met for the first time
FirstMet(events) ==
    {i \in 1..Len(events) : \A j \in 1..(i - 1) : ~PyEq(events[j], events[i])}

BestValueSelection ==
    /\ \A q \in TieQueryPool, c \in PersistContexts :
          LET r == Predict(preferences, confidence, q.tool, q.arguments, c, now)
              confs == Entries(confidence, q.tool, ClaimBucket(c))
          IN r # None =>
                \E i \in 1..Len(confs) :
                   /\ confs[i].k = r.suggested_value
                   /\ confs[i].n = r.confidence
                   /\ \A j \in 1..Len(confs) : confs[j].n <= confs[i].n
                   /\ \A j \in 1..(i - 1) : confs[j].n < confs[i].n
    /\ Trained =>
          \A tool \in LearnableTools, b \in ClaimBuckets :
             LET events == ScanEvents(Len(store), tool, b)
                 confs == Entries(confidence, tool, b)
             IN /\ Len(confs) = Cardinality(FirstMet(events))
                /\ \A i \in 1..Len(confs) :
                      \E e \in FirstMet(events) :
                         /\ PyEq(events[e], confs[i].k)
                         /\ Cardinality({f \in FirstMet(events) : f < e}) = i - 1

\* predict has suggested the first of two values that both have count 2
BestValueSelectionWitness ==
    /\ result.op = "predict"
    /\ result.value # None
    /\ Len(Entries(confidence, "set_temperature", "evening_weekday")) = 2
    /\ Entries(confidence, "set_temperature", "evening_weekday")[1].n = 2
    /\ Entries(confidence, "set_temperature", "evening_weekday")[2].n = 2
    /\ result.value.suggested_value = Entries(confidence, "set_temperature", "evening_weekday")[1].k
    /\ PyEq(result.value.suggested_value, IntV(24))

(***************************************************************************)
(* C20. Context classifier: for every hour and day of the week the         *)
(* classifier returns one of the 12 buckets, the one the ranges [5,8)      *)
(* [8,12) [12,17) [17,21) [21,24) [0,5) and day_of_week >= 5 name, night   *)
(* for an hour outside all ranges, and the same one whatever the clock     *)
(* says.                                                                   *)
(***************************************************************************)
ContextClassifier ==
    /\ Cardinality(ClaimBuckets) = 12
    /\ result.op = "classify" =>
          /\ result.value \in ClaimBuckets
          /\ result.value = ClaimBucket(Ctx(result.hour, result.dow))
          /\ \A clock \in 0..23 :
                GetContextKey(Ctx(result.hour, result.dow), clock) = result.value

\* hour 24 of a Saturday has been classified as a weekend night
ContextClassifierWitness ==
    /\ result.op = "classify"
    /\ result.hour = 24
    /\ result.dow = 5
    /\ result.value = "night_weekend"

(***************************************************************************)
(* C21. Training statistics: after a train() that returns statistics,      *)
(* total_interactions is the number of records of the store that bear a    *)
(* feedback, preferences_learned is the sum of all counts of the           *)
(* confidence table, and tools_updated lists, each once, the tools that    *)
(* have an entry in the tables; on an empty store they are 0, 0 and the    *)
(* empty list.                                                             *)
(***************************************************************************)
RECURSIVE SumCounts(_)
\* the sum of the counts of a sequence of entries
SumCounts(entries) ==
    IF entries = <<>> THEN 0 ELSE Head(entries).n + SumCounts(Tail(entries))

RECURSIVE SumOver(_, _)
\* the sum of the counts of a table over a set of (tool, bucket) pairs
SumOver(table, pairs) ==
    IF pairs = {} THEN 0
    ELSE LET x == CHOOSE y \in pairs : TRUE
         IN SumCounts(table[x[1]][x[2]]) + SumOver(table, pairs \ {x})

\* the (tool, bucket) pairs of a table
Pairs(table) == UNION {{<<tool, b>> : b \in DOMAIN table[tool]} : tool \in DOMAIN table}

\* the tools that have at least one entry in the table
ToolsWithEntries(table) ==
    {tool \in DOMAIN table : \E b \in DOMAIN table[tool] : table[tool][b] # <<>>}

TrainingStatistics ==
    Trained =>
       /\ result.total_interactions = Cardinality(FeedbackRows)
       /\ result.preferences_learned = SumOver(confidence, Pairs(confidence))
       /\ Len(result.tools_updated) = Cardinality(ToolsWithEntries(confidence))
       /\ {result.tools_updated[i] : i \in DOMAIN result.tools_updated}
             = ToolsWithEntries(confidence)
       /\ ToolsWithEntries(preferences) = ToolsWithEntries(confidence)
       /\ store = <<>> =>
             /\ result.total_interactions = 0
             /\ result.preferences_learned = 0
             /\ result.tools_updated = <<>>

\* trained on a store with a record without feedback, a confirmed
\* three-call command and a correction that names two values: three
\* increments, two feedback-bearing records, two tools
TrainingStatisticsWitness ==
    /\ Trained
    /\ Len(store) = 3
    /\ result.total_interactions = 2
    /\ result.preferences_learned = 3
    /\ Len(result.tools_updated) = 2

(***************************************************************************)
(* C22. Table invariant: in every state reached by construction, train(),  *)
(* save and load of a snapshot that save wrote, every entry of the         *)
(* confidence table is a non-negative integer and every entry of the       *)
(* weight table is >= 0 (each is in fact at least 1, and a weight is never *)
(* below the count of the same value).                                     *)
(***************************************************************************)
\* the entries of a table, each with its tool and bucket
AllEntries(table) ==
    UNION {{[tool |-> x[1], bucket |-> x[2], k |-> table[x[1]][x[2]][i].k,
             n |-> table[x[1]][x[2]][i].n] : i \in 1..Len(table[x[1]][x[2]])}
           : x \in Pairs(table)}

TableInvariant ==
    /\ \A e \in AllEntries(confidence) : e.n \in Nat /\ e.n >= 1
    /\ \A e \in AllEntries(preferences) :
          /\ e.n \in Nat
          /\ \E c \in AllEntries(confidence) :
                c.tool = e.tool /\ c.bucket = e.bucket /\ c.k = e.k /\ c.n <= e.n

\* a fresh load of a snapshot whose tables hold a count of 2 with weight 4
TableInvariantWitness ==
    /\ result.op = "load" /\ result.ok
    /\ \E e \in AllEntries(confidence) : e.n = 2 /\ e.k.t = "str"
    /\ \E e \in AllEntries(preferences) : e.n = 4 /\ e.k.t = "str"

(***************************************************************************)
(* C26. A loaded snapshot predicts like the engine that saved it: right    *)
(* after save_preferences has written the tables, a fresh engine that      *)
(* loads the file gives, for every tool, arguments and context, the same   *)
(* predict result and the same adjusted arguments as the engine that       *)
(* wrote it.                                                               *)
(***************************************************************************)
LoadedPredictsLikeSaver ==
    (result.op = "save" /\ ~result.raised /\ ~LoadCaught(file)) =>
       \A q \in PersistQueryPool, c \in PersistContexts :
          /\ Predict(LoadedPreferences(file), LoadedConfidence(file),
                     q.tool, q.arguments, c, now)
                = Predict(preferences, confidence, q.tool, q.arguments, c, now)
          /\ AdjustArguments(LoadedPreferences(file), LoadedConfidence(file),
                             q.tool, q.arguments, c, now)
                = AdjustArguments(preferences, confidence, q.tool, q.arguments, c, now)

(***************************************************************************)
(* C23. Instance independence: with two engines on one store, under every  *)
(* interleaving of their train, predict and adjust calls with writes to    *)
(* the store (the second engine's train() is taken in two steps, clearing  *)
(* and reading), the tables of an engine after its own train() are the     *)
(* full rebuild from the store as it is at that moment, and a step of one  *)
(* engine never changes the tables of the other nor the store.             *)
(***************************************************************************)
\* the full rebuild from the rows
Rebuild(rows) == TrainRun(<<>>, <<>>, rows, now)

InstanceIndependence ==
    [][ /\ result'.op = "train" =>
              /\ result'.kind = "stats"
              /\ preferences' = Rebuild(store).p /\ confidence' = Rebuild(store).c
              /\ peer' = peer /\ store' = store
        /\ result'.op = "peer_train" =>
              /\ ~result'.raised
              /\ peer'.preferences = Rebuild(store).p /\ peer'.confidence = Rebuild(store).c
              /\ preferences' = preferences /\ confidence' = confidence /\ store' = store
        /\ result'.op \in {"peer_train_begin", "peer_query"} =>
              preferences' = preferences /\ confidence' = confidence /\ store' = store
        /\ result'.op \in {"adjust", "peer_query"} => peer' = peer /\ store' = store
        /\ store' # store => result'.op \in {"log", "feedback"}
        /\ result'.op \in {"log", "feedback"} =>
              peer' = peer /\ preferences' = preferences /\ confidence' = confidence
      ]_vars

\* both engines have trained, at different moments of the store, and hold
\* different tables
InstanceIndependenceWitness ==
    /\ result.op = "peer_train"
    /\ peer.confidence # <<>>
    /\ confidence # <<>>
    /\ peer.confidence # confidence
    /\ peer.confidence = Rebuild(store).c

(***************************************************************************)
(* C24. The interaction log records the tool calls as performed: for every *)
(* interaction the agent logged with its actions, the arguments of each    *)
(* logged action are the arguments the device operation of that call was   *)
(* given.                                                                  *)
(***************************************************************************)
LogRecordsPerformed ==
    \A i \in 1..Len(store) :
       (history.performed[i].agent /\ store[i].agent_action.hasActions) =>
          store[i].agent_action.actions = history.performed[i].calls

(***************************************************************************)
(* C27. Action ids identify one interaction: no two records of the store   *)
(* have the same action_id, so a record_feedback call sets the feedback of *)
(* one record.                                                             *)
(***************************************************************************)
UniqueActionIds ==
    \A i, j \in 1..Len(store) : i # j => store[i].action_id # store[j].action_id

(***************************************************************************)
(* C28. process() reports what it did: in every call of process(), the     *)
(* returned actions_taken lists, in order, the tool calls that were handed *)
(* to the simulator, and a call that returns success = false with an empty *)
(* actions_taken has handed none to it and has left every device and the   *)
(* state file as they were.                                                *)
(***************************************************************************)
ProcessReportsWhatItDid ==
    [][ (result'.op = "process" /\ Len(store') = Len(store) + 1) =>
           LET calls == history'.performed[Len(store')].calls
           IN /\ Len(result'.actions_taken) = Len(calls)
              /\ \A i \in 1..Len(calls) : result'.actions_taken[i].tool = calls[i].tool
              /\ (~result'.success /\ result'.actions_taken = <<>>) => home' = home
      ]_vars

(***************************************************************************)
(* C25. A confirmed override is stable: once the agent has overridden      *)
(* proposal p with learned value v for set_temperature in a bucket, if     *)
(* every feedback in the store is a positive feedback on an interaction in *)
(* which v, and only v, was applied, and every interaction since the       *)
(* override in which v was applied has got it, then after train() adjust   *)
(* still turns p into v for that bucket.                                   *)
(***************************************************************************)
\* the set_temperature calls of row i: what was logged and what was applied
TempCalls(i) ==
    {c \in 1..Len(history.performed[i].calls) :
        /\ history.performed[i].calls[c].tool = "set_temperature"
        /\ "temp" \in DOMAIN history.performed[i].calls[c].arguments}

AppliedValues(i) == {history.performed[i].calls[c].arguments.temp : c \in TempCalls(i)}

\* in interaction i the agent replaced proposal p of call c by v
Overrode(i, c, proposal, v) ==
    /\ history.performed[i].agent
    /\ store[i].agent_action.hasActions
    /\ c \in TempCalls(i)
    /\ store[i].agent_action.actions[c].arguments.temp = proposal
    /\ history.performed[i].calls[c].arguments.temp = v
    /\ ~PyEq(proposal, v)

\* the user has confirmed v and nothing else, and every use of v since
\* interaction k
ConfirmedSince(k, v) ==
    /\ \A j \in 1..Len(store) :
          /\ store[j].context = store[k].context
          /\ history.performed[j].calls # <<>> => store[j].agent_action.hasActions
          /\ store[j].user_feedback # 0 =>
                store[j].user_feedback = 1 /\ AppliedValues(j) = {v}
          /\ (j >= k /\ v \in AppliedValues(j)) => store[j].user_feedback = 1
    /\ \A i, j \in 1..Len(store) : i # j => store[i].action_id # store[j].action_id

ConfirmedOverrideStable ==
    Trained =>
       \A k \in 1..Len(store) : \A c \in TempCalls(k) :
          LET proposed == store[k].agent_action.actions[c].arguments
              v == history.performed[k].calls[c].arguments.temp
          IN (Overrode(k, c, proposed.temp, v) /\ ConfirmedSince(k, v)) =>
                AdjustArguments(preferences, confidence, "set_temperature", proposed,
                                store[k].context, now).arguments.temp = v

(***************************************************************************)
(* C29. Device state survives a restart: in a session with persistence     *)
(* that started on a state file left by an earlier session, every device   *)
(* that has been registered again, and not operated on or unregistered     *)
(* since, has the state the file held for its id when the session started. *)
(***************************************************************************)
StateSurvivesRestart ==
    (history.restarted /\ home.persist_state /\ history.at_start.exists) =>
       \A i \in 1..Len(home.devices) :
          LET device == home.devices[i]
              saved == history.at_start.states
          IN (/\ device.device_id \in DOMAIN saved
              /\ device.device_id \notin history.touched
              /\ saved[device.device_id].device_type = device.device_type
              /\ device.device_type = "thermostat"
              /\ TempAccepted(saved[device.device_id].target_temp)) =>
                device.target_temp = saved[device.device_id].target_temp

(***************************************************************************)
(* C30. Device registry consistency: after every register_device and       *)
(* unregister_device call, list_all_devices holds, each once, the ids that *)
(* were registered with success and not unregistered since; registering an *)
(* id that is present raises ValueError and changes nothing of the         *)
(* simulator, the device of that id included; unregistering an unknown id  *)
(* returns False and changes nothing.                                      *)
(***************************************************************************)
RegistryConsistency ==
    [][ LET before == ListAllDevices(home.devices)
            after == ListAllDevices(home'.devices)
        IN /\ {after[i] : i \in 1..Len(after)} = history'.registered
           /\ Len(after) = Cardinality(history'.registered)
           /\ (result'.op = "register" /\ result'.raised) =>
                 IsRegistered(home.devices, result'.device_id) /\ home' = home
           /\ (result'.op = "register" /\ ~result'.raised) =>
                 /\ ~IsRegistered(home.devices, result'.device_id)
                 /\ after = Append(before, result'.device_id)
           /\ (result'.op = "unregister" /\ ~result'.value) =>
                 ~IsRegistered(home.devices, result'.device_id) /\ home' = home
           /\ (result'.op = "unregister" /\ result'.value) =>
                 /\ IsRegistered(home.devices, result'.device_id)
                 /\ after = SelectSeq(before, LAMBDA id : id # result'.device_id)
      ]_vars

\* a thermostat with target 24 is registered under "t", a second device
\* was registered and "u" is not registered now, and a register_device of
\* another device under "t" has just raised
RegistryConsistencyWitness ==
    /\ result.op = "register" /\ result.raised
    /\ result.device_id = StrV(<<"t">>)
    /\ ListAllDevices(home.devices) = <<StrV(<<"t">>)>>
    /\ home.devices[1].target_temp = IntV(24)
    /\ StrV(<<"u">>) \in history.touched

============================================================================
